---- MODULE Spec2Model ----
(***************************************************************************)
(* Model of the log subscription-filter management Lambda                  *)
(* (src/sample-data/update.py): the reconciliation engine, the tracking    *)
(* record, and the cross-account sync, driven by EventBridge events.       *)
(*                                                                         *)
(* Strings are sequences of one-character strings, so that glob matching,  *)
(* ",".join and str.split are computed as Python computes them.            *)
(***************************************************************************)
EXTENDS Integers, Sequences, FiniteSets, TLC

(***************************************************************************)
(* Bounds of the model                                                     *)
(***************************************************************************)
\* backend calls that fail during the first delivery of an event
MaxFaults == 1
\* times the same trigger event is delivered in succession
MaxDeliveries == 2
\* parameters the store returns in one page of get_parameters_by_path
PageSize == 1
\* pages an invocation of the standalone handler asks for
MaxPages == 4

(***************************************************************************)
(* Strings                                                                 *)
(***************************************************************************)
EmptyStr == << >>

\* ",".join(list)
RECURSIVE Join(_)
Join(list) ==
    IF Len(list) = 0 THEN EmptyStr
    ELSE IF Len(list) = 1 THEN list[1]
    ELSE list[1] \o <<",">> \o Join(Tail(list))

\* str.split(","): the fields between commas; "" gives [""]
RECURSIVE Split(_)
Split(s) ==
    IF \A i \in 1..Len(s) : s[i] # ","
    THEN <<s>>
    ELSE LET i == CHOOSE n \in 1..Len(s) :
                      s[n] = "," /\ \A m \in 1..(n - 1) : s[m] # ","
         IN  <<SubSeq(s, 1, i - 1)>> \o Split(SubSeq(s, i + 1, Len(s)))

\* x in list
InList(x, list) == \E i \in 1..Len(list) : list[i] = x

\* fnmatch.fnmatch(name, pat) / bool(fnmatch.filter([name], pat)) on POSIX:
\* "*" matches any run of characters, "?" any one character, every other
\* character itself (the patterns of the model hold no character class)
RECURSIVE fnmatch(_, _)
fnmatch(name, pat) ==
    IF Len(pat) = 0 THEN Len(name) = 0
    ELSE IF Head(pat) = "*"
         THEN \E n \in 0..Len(name) :
                  fnmatch(SubSeq(name, n + 1, Len(name)), Tail(pat))
    ELSE IF Len(name) = 0 THEN FALSE
    ELSE IF Head(pat) = "?" THEN fnmatch(Tail(name), Tail(pat))
    ELSE Head(pat) = Head(name) /\ fnmatch(Tail(name), Tail(pat))

(***************************************************************************)
(* Configuration (module-level settings of update.py)                      *)
(***************************************************************************)
\* SSM_PARAMETER_ROOT, "/c/"
SSM_PARAMETER_ROOT == <<"/", "c", "/">>
\* FILTERS_TRACKING_PARAM
FILTERS_TRACKING_PARAM == <<"C", "_", "F">>
\* FILTER_NAME_PREFIX, the name of the managed filter
FILTER_NAME_PREFIX == <<"F">>
\* CROSS_ACCOUNT_ROLE_NAME
CROSS_ACCOUNT_ROLE_NAME == <<"R">>
\* LOCAL_ACCOUNT_ID, and the id of a central account that is another account
LOCAL_ACCOUNT_ID == <<"1">>
CentralAccountId == <<"2">>

\* get_parameters_by_path(Path=SSM_PARAMETER_ROOT, Recursive=True) lists the
\* parameters whose name starts with the path
UnderRoot(name) ==
    /\ Len(name) >= Len(SSM_PARAMETER_ROOT)
    /\ SubSeq(name, 1, Len(SSM_PARAMETER_ROOT)) = SSM_PARAMETER_ROOT

\* needle in haystack, for strings
Contains(hay, needle) ==
    \E i \in 0..(Len(hay) - Len(needle)) :
        SubSeq(hay, i + 1, i + Len(needle)) = needle

(***************************************************************************)
(* The universe of the model                                               *)
(***************************************************************************)
GA == <<"/", "a", "/", "x">>
GB == <<"/", "b", "/", "y">>
\* log groups, in the order describe_log_groups lists them
LogGroupOrder == <<GA, GB>>
LogGroups == {GA, GB}

PatAll == <<"*">>
PatA == <<"/", "a", "/", "*">>
PatB == <<"/", "b", "/", "?">>

\* parameter names: rule records under SSM_PARAMETER_ROOT (KeyTwice holds
\* the root a second time), and Outside, which holds the root but is not
\* under it; RuleOrder is the order the store lists them in
KeyA == <<"/", "c", "/", "a">>
KeyB == <<"/", "c", "/", "b">>
KeyTwice == <<"/", "c", "/", "a", "/", "c", "/", "b">>
KeyAB == <<"/", "c", "/", "a", "b">>
Outside == <<"/", "x", "/", "c", "/", "a">>
RuleOrder == <<KeyA, KeyTwice, KeyAB, KeyB, Outside>>
RuleNames == {KeyA, KeyTwice, KeyAB, KeyB}
ParameterNames == RuleNames \cup {Outside}

\* The Value of a rule record, by what json.loads makes of it:
\* kind "absent" (no record), "malformed" (not JSON), "object" (a JSON
\* object; has_pattern: it holds "log_group_name_pattern"; prefix_kind:
\* "missing" (no "prefix" key), "null", or "str")
RuleValue(kind, has_pattern, pattern, prefix_kind, prefix) ==
    [kind |-> kind, has_pattern |-> has_pattern, pattern |-> pattern,
     prefix_kind |-> prefix_kind, prefix |-> prefix]

NoRule == RuleValue("absent", FALSE, EmptyStr, "missing", EmptyStr)
Malformed == RuleValue("malformed", FALSE, EmptyStr, "missing", EmptyStr)
NoPattern == RuleValue("object", FALSE, EmptyStr, "str", <<"E">>)
Rule(pattern, prefix_kind, prefix) ==
    RuleValue("object", TRUE, pattern, prefix_kind, prefix)

ValidRules ==
    { Rule(PatA, "str", <<"E">>),
      Rule(PatAll, "missing", EmptyStr),
      Rule(PatB, "str", EmptyStr),
      Rule(PatA, "str", <<"[", "]">>) }
RuleValues == ValidRules \cup {Rule(PatAll, "null", EmptyStr), Malformed, NoPattern}

(***************************************************************************)
(* get_prefix                                                              *)
(***************************************************************************)
\* The outcome of a computation that may raise
Ok(v) == [raised |-> FALSE, value |-> v]
Raised == [raised |-> TRUE, value |-> EmptyStr]

BracketStr == <<"[", "]">>

\* get_prefix(json_data): "%^" + None + "*%" raises TypeError
get_prefix(json_data) ==
    IF json_data.prefix_kind = "missing" THEN Ok(BracketStr)
    ELSE IF json_data.prefix_kind = "null" THEN Raised
    ELSE IF json_data.prefix # EmptyStr /\ json_data.prefix # BracketStr
         THEN Ok(<<"%", "^">> \o json_data.prefix \o <<"*", "%">>)
    ELSE Ok(json_data.prefix)

(***************************************************************************)
(* Backend state and the state of one handler invocation                   *)
(***************************************************************************)
\* A subscription filter named FILTER_NAME_PREFIX on a log group
NoFilter == [present |-> FALSE, pattern |-> EmptyStr]
Filter(pattern) == [present |-> TRUE, pattern |-> pattern]

\* A parameter of the store that holds a string
NoParam == [present |-> FALSE, value |-> EmptyStr]
Param(value) == [present |-> TRUE, value |-> value]

\* The consolidated document of this account in the central store
NoDoc == [present |-> FALSE, doc |-> {}]
Doc(mapping) == [present |-> TRUE, doc |-> mapping]

\* A failing backend call: the operation, the log group it is made on (or
\* the empty string) and the call site or the kind of error
Fault(op, g, site) == [op |-> op, g |-> g, site |-> site]

\* A mutating backend call the invocation made, and whether it succeeded
Call(op, target, ok) == [op |-> op, target |-> target, ok |-> ok]

\* An EventBridge event: detail.eventName and the requestParameters name
\* (logGroupName or name)
Event(eventName, name) == [eventName |-> eventName, name |-> name]

\* filterPattern argument of put_subscription_filter: None or a string
NonePrefix == [none |-> TRUE, value |-> EmptyStr]
Prefix(v) == [none |-> FALSE, value |-> v]

\* lambda_handler(event, context): the branch the event is routed to
lambda_handler(event) ==
    IF event.eventName = "CreateLogGroup"
    THEN "add_subscription_filter_to_new_log_group"
    ELSE IF event.eventName = "PutParameter"
            /\ Contains(event.name, SSM_PARAMETER_ROOT)
    THEN "update_subscription_filter_on_existing_log_groups"
    ELSE IF event.eventName = "DeleteParameter"
            /\ Contains(event.name, SSM_PARAMETER_ROOT)
    THEN "reconcile_subscription_filters"
    ELSE "returned"

\* The last evaluation of get_prefix: its argument and its outcome
NoPrefixCall == [called |-> FALSE, json_data |-> NoRule, result |-> Raised]
PrefixCall(json_data) ==
    [called |-> TRUE, json_data |-> json_data, result |-> get_prefix(json_data)]

\* The filters and the tracking record when reconcile_subscription_filters
\* was entered
NotEntered == [entered |-> FALSE, filters |-> << >>, tracking |-> NoParam]
Entered(w) == [entered |-> TRUE, filters |-> w.filters, tracking |-> w.tracking]

\* The arguments of sts_client.assume_role
NoRequest == [made |-> FALSE, RoleArn |-> EmptyStr, RoleSessionName |-> ""]
Request(RoleArn, RoleSessionName) ==
    [made |-> TRUE, RoleArn |-> RoleArn, RoleSessionName |-> RoleSessionName]

\* The invocation at its entry: the local variables of the handler and of
\* the functions it calls, and the mutating calls made so far
Invocation(event) ==
    [ event |-> event, pc |-> lambda_handler(event), calls |-> << >>,
      caller |-> "", log_group_name |-> EmptyStr,
      prefix |-> NonePrefix,
      all_log_groups |-> << >>, matched_log_groups |-> << >>, i |-> 0,
      logGroupListNew |-> << >>,
      current_patterns |-> << >>, scan |-> << >>,
      log_groups_with_filters |-> << >>, filters_to_remove |-> << >>,
      removed_count |-> 0, failed_count |-> 0,
      central_client |-> "none", consolidated_config |-> {},
      sync_count |-> 0, sync_at |-> 0, assume_role_request |-> NoRequest,
      destinationArn |-> EmptyStr,
      raised_at |-> "", got_prefix |-> NoPrefixCall,
      before_reconcile |-> NotEntered ]

Finished(p) == p.pc \in {"returned", "raised"}

Next_(w, p) == [w |-> w, p |-> p]
Goto(w, p, pc) == [w |-> w, p |-> [p EXCEPT !.pc = pc]]
Raise(w, p) == [w |-> w, p |-> [p EXCEPT !.pc = "raised", !.raised_at = p.pc]]
Logged(p, call) == [p EXCEPT !.calls = Append(@, call)]

\* get_parameters_generator(): the records under SSM_PARAMETER_ROOT, in the
\* order the store returns them
get_parameters_generator(w) ==
    LET present(name) == UnderRoot(name) /\ w.rules[name].kind # "absent"
    IN  [ k \in 1..Len(SelectSeq(RuleOrder, present)) |->
            w.rules[SelectSeq(RuleOrder, present)[k]] ]

\* Faulty variant: a record that does not parse or lacks its pattern is passed over
Unreadable_Tolerated(value) == FALSE

\* json.loads(parameter["Value"]) or json_data["log_group_name_pattern"] raises
Unreadable(value) == value.kind = "malformed" \/ ~value.has_pattern

\* describe_log_groups_generator(): the names of the log groups
describe_log_groups_generator(w) ==
    LET exists(g) == g \in w.log_groups
    IN  SelectSeq(LogGroupOrder, exists)

\* ssm_client.get_parameter(Name=name)["Parameter"]["Value"] of a rule record
get_parameter(w, name) ==
    IF name \in DOMAIN w.rules THEN w.rules[name] ELSE NoRule

(***************************************************************************)
(* CreateLogGroup: add_subscription_filter_to_new_log_group and            *)
(* add_subscription_filter, one backend call per step                      *)
(***************************************************************************)
Faulty(F, op, g, site) == Fault(op, g, site) \in F

\* Faulty variant: the scan of the rules goes on to the last one that matches
FirstIndex_Last(flags) ==
    IF \E k \in 1..Len(flags) : flags[k]
    THEN CHOOSE k \in 1..Len(flags) :
             flags[k] /\ \A m \in (k + 1)..Len(flags) : ~flags[m]
    ELSE 0

\* index of the first TRUE of a sequence of booleans, or 0
FirstIndex(flags) ==
    IF \E k \in 1..Len(flags) : flags[k]
    THEN CHOOSE k \in 1..Len(flags) :
             flags[k] /\ \A m \in 1..(k - 1) : ~flags[m]
    ELSE 0

\* add_subscription_filter_to_new_log_group(log_group_name): the rule list
\* is read and scanned for the first rule whose pattern matches; get_prefix
\* is evaluated on every rule scanned, before its pattern is looked at
add_subscription_filter_to_new_log_group(w, p, F) ==
    LET name == p.event.name
        parameters == get_parameters_generator(w)
        stops(v) == \/ Unreadable(v)
                    \/ get_prefix(v).raised
                    \/ fnmatch(name, v.pattern)
        k == FirstIndex([n \in 1..Len(parameters) |-> stops(parameters[n])])
        q == IF k > 0 /\ parameters[k].kind # "malformed"
             THEN [p EXCEPT !.got_prefix = PrefixCall(parameters[k])]
             ELSE p
    IN  IF Faulty(F, "get_parameters_by_path", EmptyStr, "new") THEN Raise(w, p)
        ELSE IF k = 0 THEN Goto(w, p, "returned")
        ELSE IF Unreadable(parameters[k]) \/ get_prefix(parameters[k]).raised
        THEN Raise(w, q)
        ELSE Goto(w, [q EXCEPT !.log_group_name = name, !.caller = "new",
                               !.prefix = Prefix(get_prefix(parameters[k]).value)],
                  "put_subscription_filter")

\* add_subscription_filter(log_group_name, prefix=None), lines 240-252: the
\* prefix of the first rule whose pattern matches, None when none does
add_subscription_filter(w, p, F) ==
    LET parameters == get_parameters_generator(w)
        stops(v) == Unreadable(v) \/ fnmatch(p.log_group_name, v.pattern)
        k == FirstIndex([n \in 1..Len(parameters) |-> stops(parameters[n])])
        q == IF k > 0 /\ ~Unreadable(parameters[k])
             THEN [p EXCEPT !.got_prefix = PrefixCall(parameters[k])]
             ELSE p
    IN  IF Faulty(F, "get_parameters_by_path", EmptyStr, "add") THEN Raise(w, p)
        ELSE IF k = 0
        THEN Goto(w, [p EXCEPT !.prefix = NonePrefix], "put_subscription_filter")
        ELSE IF Unreadable(parameters[k]) \/ get_prefix(parameters[k]).raised
        THEN Raise(w, q)
        ELSE Goto(w, [q EXCEPT !.prefix = Prefix(get_prefix(parameters[k]).value)],
                  "put_subscription_filter")

\* The log backend's put_subscription_filter: the filters of a log group are
\* keyed by name, so a filter of the same name is replaced; a filter of
\* any other name is kept in w.foreign
PutFilter(w, g, name, pattern) ==
    IF name = FILTER_NAME_PREFIX
    THEN [w EXCEPT !.filters[g] = Filter(pattern)]
    ELSE [w EXCEPT !.foreign = @ \cup {g}]

\* line 30: SENDER_FUNCTION_NAME = os.getenv("SENDER_FUNCTION_NAME"), None
\* when w.sender says the variable is unset; nothing checks it
SENDER_FUNCTION_NAME(w) == IF w.sender = "unset" THEN <<"None">> ELSE <<"S">>

\* lines 257-261, 267: the f-string of the destination, in which None is
\* formatted as the text "None"
destinationArn(w) ==
    <<"arn:aws:lambda:", "r", ":">> \o LOCAL_ACCOUNT_ID \o <<":function:">>
        \o SENDER_FUNCTION_NAME(w)

\* Faulty variant: the filter is named after its log group
filterName_PerLogGroup(log_group_name) == FILTER_NAME_PREFIX \o log_group_name

\* line 265: filterName=FILTER_NAME_PREFIX, for every log group
filterName(log_group_name) == FILTER_NAME_PREFIX

\* Faulty variant: a log group an entry of the tracking record covers is taken to
\* carry its filter already
put_subscription_filter_Tracked(w, p, F) ==
    LET g == p.log_group_name
        logGroupList == Split(w.tracking.value)
        known == /\ w.tracking.present
                 /\ \E k \in 1..Len(logGroupList) : fnmatch(g, logGroupList[k])
        fails == \/ Faulty(F, "put_subscription_filter", g, "error")
                 \/ p.prefix.none
                 \/ g \notin w.log_groups
        q == [p EXCEPT !.destinationArn = destinationArn(w)]
    IN  IF known THEN Goto(w, p, "add_get_parameter")
        ELSE IF fails
        THEN Raise(w, Logged(q, Call("put_subscription_filter", g, FALSE)))
        ELSE Goto(PutFilter(w, g, filterName(g), p.prefix.value),
                  Logged(q, Call("put_subscription_filter", g, TRUE)),
                  "add_get_parameter")

\* add_subscription_filter, lines 257-268: get_caller_identity (a read of no
\* shared state) and put_subscription_filter with the destination as
\* formatted; a filterPattern of None is refused by the client, a missing
\* log group by the backend, and whether the backend refuses a destination
\* it cannot resolve is its choice (F)
put_subscription_filter(w, p, F) ==
    LET g == p.log_group_name
        fails == \/ Faulty(F, "put_subscription_filter", g, "error")
                 \/ p.prefix.none
                 \/ g \notin w.log_groups
        q == [p EXCEPT !.destinationArn = destinationArn(w)]
    IN  IF fails
        THEN Raise(w, Logged(q, Call("put_subscription_filter", g, FALSE)))
        ELSE Goto(PutFilter(w, g, filterName(g), p.prefix.value),
                  Logged(q, Call("put_subscription_filter", g, TRUE)),
                  "add_get_parameter")

\* add_subscription_filter, lines 269-277: the tracking record is read and
\* the log group appended unless an entry, taken as a glob, matches it
add_get_parameter(w, p, F) ==
    LET logGroupList == Split(w.tracking.value)
        known == \E k \in 1..Len(logGroupList) :
                     fnmatch(p.log_group_name, logGroupList[k])
    IN  IF ~w.tracking.present \/ Faulty(F, "get_parameter", EmptyStr, "add")
        THEN Raise(w, p)
        ELSE Goto(w, [p EXCEPT !.logGroupListNew =
                          IF known THEN logGroupList
                          ELSE Append(logGroupList, p.log_group_name)],
                  "add_subscription_filter_param")

\* subscription_filter_param(filterList): put_parameter of the joined list
subscription_filter_param(w, p, F, filterList, site) ==
    IF Faulty(F, "put_parameter", EmptyStr, site)
    THEN Raise(w, Logged(p, Call("put_parameter", FILTERS_TRACKING_PARAM, FALSE)))
    ELSE Next_([w EXCEPT !.tracking = Param(Join(filterList))],
               Logged(p, Call("put_parameter", FILTERS_TRACKING_PARAM, TRUE)))

\* Faulty variant: the loop over the matched log groups ends after the first one
AfterAdd_FirstOnly(p) ==
    IF p.caller = "new" THEN "returned" ELSE "reconcile_subscription_filters"

\* Faulty variant: the new-log-group branch goes on to the sync
AfterAdd_ThenSync(p) ==
    IF p.caller = "new" THEN "sync_parameters_to_central_account"
    ELSE IF p.i < Len(p.matched_log_groups) THEN "update_get_parameters"
    ELSE "reconcile_subscription_filters"

\* where the caller of add_subscription_filter goes on
AfterAdd(p) ==
    IF p.caller = "new" THEN "returned"
    ELSE IF p.i < Len(p.matched_log_groups) THEN "update_get_parameters"
    ELSE "reconcile_subscription_filters"

\* add_subscription_filter, line 279, and the return to the caller
add_subscription_filter_param(w, p, F) ==
    LET r == subscription_filter_param(w, p, F, p.logGroupListNew, "add")
    IN  IF r.p.pc = "raised" THEN r
        ELSE Goto(r.w, [r.p EXCEPT !.i = IF p.caller = "new" THEN @ ELSE @ + 1],
                  AfterAdd(p))

(***************************************************************************)
(* PutParameter: update_subscription_filter_on_existing_log_groups         *)
(***************************************************************************)
\* lines 354-356: the names of all log groups
update_subscription_filter_on_existing_log_groups(w, p, F) ==
    Goto(w, [p EXCEPT !.all_log_groups = describe_log_groups_generator(w)],
         "get_matching_log_groups")

\* get_matching_log_groups(parameter_name, log_groups) and lines 361-365
get_matching_log_groups(w, p, F) ==
    LET parameter_info == get_parameter(w, p.event.name)
        matches(g) == fnmatch(g, parameter_info.pattern)
        matched == SelectSeq(p.all_log_groups, matches)
    IN  IF \/ parameter_info.kind \in {"absent", "malformed"}
           \/ Faulty(F, "get_parameter", EmptyStr, "rule")
           \/ (~parameter_info.has_pattern /\ Len(p.all_log_groups) > 0)
        THEN Raise(w, p)
        ELSE IF Len(matched) = 0
        THEN Goto(w, p, "reconcile_subscription_filters")
        ELSE Goto(w, [p EXCEPT !.matched_log_groups = matched, !.i = 1],
                  "update_get_parameters")

\* the pattern of the last element of parameters that matches log_group,
\* "" when none does
RECURSIVE LastMatchingPattern(_, _)
LastMatchingPattern(parameters, log_group) ==
    IF Len(parameters) = 0 THEN EmptyStr
    ELSE LET last == parameters[Len(parameters)]
         IN  IF fnmatch(log_group, last.pattern) THEN last.pattern
             ELSE LastMatchingPattern(SubSeq(parameters, 1, Len(parameters) - 1),
                                      log_group)

\* lines 367-376: logGroupToAdd for the log group at hand; every rule is
\* parsed, the last match wins
update_get_parameters(w, p, F) ==
    LET parameters == get_parameters_generator(w)
        log_group == p.matched_log_groups[p.i]
    IN  IF \/ Faulty(F, "get_parameters_by_path", EmptyStr, "update")
           \/ \E k \in 1..Len(parameters) : Unreadable(parameters[k])
        THEN Raise(w, p)
        ELSE Goto(w, [p EXCEPT !.logGroupListNew =
                          <<LastMatchingPattern(parameters, log_group)>>],
                  "update_get_tracking")

\* lines 378-386: the tracking record with logGroupToAdd appended if it is
\* not an entry; any failure of the read starts a new list
update_get_tracking(w, p, F) ==
    LET logGroupToAdd == p.logGroupListNew[1]
        logGroupList == Split(w.tracking.value)
    IN  IF ~w.tracking.present \/ Faulty(F, "get_parameter", EmptyStr, "update")
        THEN Goto(w, p, "update_subscription_filter_param")
        ELSE Goto(w, [p EXCEPT !.logGroupListNew =
                          IF InList(logGroupToAdd, logGroupList) THEN logGroupList
                          ELSE Append(logGroupList, logGroupToAdd)],
                  "update_subscription_filter_param")

\* lines 387-392: the tracking record is written, then
\* add_subscription_filter(log_group) is entered without a prefix
update_subscription_filter_param(w, p, F) ==
    LET r == subscription_filter_param(w, p, F, p.logGroupListNew, "update")
    IN  IF r.p.pc = "raised" THEN r
        ELSE Goto(r.w, [r.p EXCEPT !.log_group_name = p.matched_log_groups[p.i],
                                   !.caller = "update"],
                  "add_subscription_filter")

(***************************************************************************)
(* reconcile_subscription_filters                                          *)
(***************************************************************************)
\* lines 450-461: the current patterns; a failed listing or an unreadable
\* record raises
reconcile_subscription_filters(w, p, F) ==
    LET parameters == get_parameters_generator(w)
        q == [p EXCEPT !.before_reconcile = Entered(w)]
    IN  IF \/ Faulty(F, "get_parameters_by_path", EmptyStr, "reconcile")
           \/ \E k \in 1..Len(parameters) : Unreadable(parameters[k])
        THEN Raise(w, q)
        ELSE Goto(w, [q EXCEPT !.current_patterns =
                          [k \in 1..Len(parameters) |-> parameters[k].pattern]],
                  "get_log_groups_with_filters")

\* Faulty variant: matches_any_pattern is not reset for each log group, so that once
\* a log group matched every later one is kept
FiltersToRemove_StickyFlag(log_groups_with_filters, current_patterns) ==
    LET kept(n) == \E m \in 1..n, k \in 1..Len(current_patterns) :
                       fnmatch(log_groups_with_filters[m], current_patterns[k])
    IN  [ j \in 1..Cardinality({ n \in 1..Len(log_groups_with_filters) : ~kept(n) })
            |-> log_groups_with_filters[
                    CHOOSE n \in 1..Len(log_groups_with_filters) :
                        /\ ~kept(n)
                        /\ Cardinality({ m \in 1..n : ~kept(m) }) = j ] ]

\* Faulty variant: a log group is kept only if every current pattern matches it
FiltersToRemove_MatchAll(log_groups_with_filters, current_patterns) ==
    LET orphan(g) == ~\A k \in 1..Len(current_patterns) :
                          fnmatch(g, current_patterns[k])
    IN  SelectSeq(log_groups_with_filters, orphan)

\* lines 482-505: the log groups with a filter that match no current pattern
FiltersToRemove(log_groups_with_filters, current_patterns) ==
    LET orphan(g) == ~\E k \in 1..Len(current_patterns) :
                          fnmatch(g, current_patterns[k])
    IN  SelectSeq(log_groups_with_filters, orphan)

\* Faulty variant: the tracking record is rewritten also when the scan found nothing
AfterScan_NoCleanup(p, found) ==
    IF Len(FiltersToRemove(found, p.current_patterns)) = 0
    THEN "reconcile_tracking"
    ELSE "delete_subscription_filter"

\* where reconcile_subscription_filters goes on after the scan
AfterScan(p, found) ==
    IF Len(found) = 0 THEN "reconcile_cleanup"
    ELSE IF Len(FiltersToRemove(found, p.current_patterns)) = 0
    THEN "reconcile_tracking"
    ELSE "delete_subscription_filter"

\* get_log_groups_with_filters(), line 411: the log groups are listed
get_log_groups_with_filters(w, p, F) ==
    LET scan == describe_log_groups_generator(w)
    IN  Goto(w, [p EXCEPT !.scan = scan, !.i = 1,
                          !.log_groups_with_filters = << >>],
             IF Len(scan) = 0 THEN AfterScan(p, << >>)
             ELSE "describe_subscription_filters")

\* Faulty variant: ResourceNotFoundException is not caught in the scan
describe_subscription_filters_Raise(w, p, F) ==
    LET g == p.scan[p.i]
        gone == \/ Faulty(F, "describe_subscription_filters", g, "notfound")
                \/ g \notin w.log_groups
        has == /\ ~Faulty(F, "describe_subscription_filters", g, "error")
               /\ (w.filters[g].present \/ g \in w.foreign)
        found == IF has THEN Append(p.log_groups_with_filters, g)
                 ELSE p.log_groups_with_filters
        q == [p EXCEPT !.log_groups_with_filters = found]
    IN  IF gone THEN Raise(w, p)
        ELSE IF p.i < Len(p.scan)
        THEN Goto(w, [q EXCEPT !.i = @ + 1], "describe_subscription_filters")
        ELSE Goto(w, [q EXCEPT !.i = 1,
                               !.filters_to_remove =
                                   FiltersToRemove(found, p.current_patterns)],
                  AfterScan(p, found))

\* get_log_groups_with_filters(), lines 412-428: the filters of one log
\* group whose name starts with FILTER_NAME_PREFIX (w.foreign: the log
\* groups that carry such a filter under another name); an error skips it
describe_subscription_filters(w, p, F) ==
    LET g == p.scan[p.i]
        skipped == \/ Faulty(F, "describe_subscription_filters", g, "notfound")
                   \/ Faulty(F, "describe_subscription_filters", g, "error")
                   \/ g \notin w.log_groups
        has == ~skipped /\ (w.filters[g].present \/ g \in w.foreign)
        found == IF has THEN Append(p.log_groups_with_filters, g)
                 ELSE p.log_groups_with_filters
        q == [p EXCEPT !.log_groups_with_filters = found]
    IN  IF p.i < Len(p.scan)
        THEN Goto(w, [q EXCEPT !.i = @ + 1], "describe_subscription_filters")
        ELSE Goto(w, [q EXCEPT !.i = 1,
                               !.filters_to_remove =
                                   FiltersToRemove(found, p.current_patterns)],
                  AfterScan(p, found))

\* Faulty variant: the pass deletes the record the event names
delete_tracking_param_EventRecord(w, p, F, site, next) ==
    Goto([w EXCEPT !.rules = [name \in DOMAIN @ |->
                                 IF name = p.event.name THEN NoRule ELSE @[name]]],
         Logged(p, Call("delete_parameter", p.event.name, TRUE)),
         next)

\* delete_parameter(Name=FILTERS_TRACKING_PARAM) with ParameterNotFound
\* caught; any other error propagates
delete_tracking_param(w, p, F, site, next) ==
    IF Faulty(F, "delete_parameter", EmptyStr, site)
    THEN Raise(w, Logged(p, Call("delete_parameter", FILTERS_TRACKING_PARAM, FALSE)))
    ELSE Goto([w EXCEPT !.tracking = NoParam],
              Logged(p, Call("delete_parameter", FILTERS_TRACKING_PARAM,
                             w.tracking.present)),
              next)

\* Faulty variant: lambda_handler returns after reconcile_subscription_filters
AfterReconcile_Return == "returned"

\* where lambda_handler goes on after reconcile_subscription_filters
AfterReconcile == "sync_parameters_to_central_account"

\* lines 470-480: no log group has a filter
reconcile_cleanup(w, p, F) ==
    delete_tracking_param(w, p, F, "cleanup", AfterReconcile)

\* Faulty variant: a deletion that fails ends the pass
AfterDelete_Abort(p, error) ==
    IF error THEN "raised"
    ELSE IF p.i < Len(p.filters_to_remove) THEN "delete_subscription_filter"
    ELSE "reconcile_tracking"

\* lines 515-532: where the removal loop goes on after a deletion, failed
\* (error) or not
AfterDelete(p, error) ==
    IF p.i < Len(p.filters_to_remove) THEN "delete_subscription_filter"
    ELSE "reconcile_tracking"

\* Faulty variant: the filter the scan found on the log group is deleted, whatever
\* its name
delete_subscription_filter_Found(w, p, F) ==
    LET g == p.filters_to_remove[p.i]
        error == Faulty(F, "delete_subscription_filter", g, "error")
        gone == \/ Faulty(F, "delete_subscription_filter", g, "notfound")
                \/ g \notin w.log_groups
                \/ ~(w.filters[g].present \/ g \in w.foreign)
        next == AfterDelete(p, error)
        q == [p EXCEPT !.i = @ + 1]
    IN  IF error
        THEN Goto(w, Logged([q EXCEPT !.failed_count = @ + 1],
                            Call("delete_subscription_filter", g, FALSE)), next)
        ELSE IF gone
        THEN Goto(w, Logged([q EXCEPT !.removed_count = @ + 1],
                            Call("delete_subscription_filter", g, FALSE)), next)
        ELSE Goto([w EXCEPT !.filters[g] = NoFilter, !.foreign = @ \ {g}],
                  Logged([q EXCEPT !.removed_count = @ + 1],
                         Call("delete_subscription_filter", g, TRUE)), next)

\* Faulty variant: ResourceNotFoundException is counted with the failures
delete_subscription_filter_NotFoundFails(w, p, F) ==
    LET g == p.filters_to_remove[p.i]
        error == \/ Faulty(F, "delete_subscription_filter", g, "error")
                 \/ Faulty(F, "delete_subscription_filter", g, "notfound")
                 \/ g \notin w.log_groups
                 \/ ~w.filters[g].present
        q == [p EXCEPT !.i = @ + 1]
    IN  IF error
        THEN Goto(w, Logged([q EXCEPT !.failed_count = @ + 1],
                            Call("delete_subscription_filter", g, FALSE)),
                  AfterDelete(p, error))
        ELSE Goto([w EXCEPT !.filters[g] = NoFilter],
                  Logged([q EXCEPT !.removed_count = @ + 1],
                         Call("delete_subscription_filter", g, TRUE)),
                  AfterDelete(p, error))

\* lines 511-532: one deletion of the removal loop
delete_subscription_filter(w, p, F) ==
    LET g == p.filters_to_remove[p.i]
        error == Faulty(F, "delete_subscription_filter", g, "error")
        gone == \/ Faulty(F, "delete_subscription_filter", g, "notfound")
                \/ g \notin w.log_groups
                \/ ~w.filters[g].present
        next == AfterDelete(p, error)
        q == [p EXCEPT !.i = @ + 1]
    IN  IF error
        THEN Goto(w, Logged([q EXCEPT !.failed_count = @ + 1],
                            Call("delete_subscription_filter", g, FALSE)), next)
        ELSE IF gone
        THEN Goto(w, Logged([q EXCEPT !.removed_count = @ + 1],
                            Call("delete_subscription_filter", g, FALSE)), next)
        ELSE Goto([w EXCEPT !.filters[g] = NoFilter],
                  Logged([q EXCEPT !.removed_count = @ + 1],
                         Call("delete_subscription_filter", g, TRUE)), next)

\* Faulty variant: the tracking record is rewritten to the log groups found with a
\* filter and not marked for removal
reconcile_tracking_Names(w, p, F) ==
    LET kept(g) == ~InList(g, p.filters_to_remove)
        r == subscription_filter_param(
                 w, p, F, SelectSeq(p.log_groups_with_filters, kept), "reconcile")
    IN  IF r.p.pc = "raised" THEN r
        ELSE Goto(r.w, r.p, "sync_parameters_to_central_account")

\* lines 538-551: the tracking record is rewritten to the current patterns,
\* or deleted when there is none
reconcile_tracking(w, p, F) ==
    IF Len(p.current_patterns) > 0
    THEN LET r == subscription_filter_param(w, p, F, p.current_patterns, "reconcile")
         IN  IF r.p.pc = "raised" THEN r ELSE Goto(r.w, r.p, AfterReconcile)
    ELSE delete_tracking_param(w, p, F, "reconcile", AfterReconcile)

(***************************************************************************)
(* sync_parameters_to_central_account                                      *)
(***************************************************************************)
\* str.replace(sub, "")
RECURSIVE Remove(_, _)
Remove(s, sub) ==
    IF Len(s) < Len(sub) \/ Len(sub) = 0 THEN s
    ELSE IF SubSeq(s, 1, Len(sub)) = sub
    THEN Remove(SubSeq(s, Len(sub) + 1, Len(s)), sub)
    ELSE <<Head(s)>> \o Remove(Tail(s), sub)

\* str.strip("/")
RECURSIVE Strip(_)
Strip(s) ==
    IF Len(s) = 0 THEN s
    ELSE IF Head(s) = "/" THEN Strip(Tail(s))
    ELSE IF s[Len(s)] = "/" THEN Strip(SubSeq(s, 1, Len(s) - 1))
    ELSE s

\* get_all_local_parameters(), line 126
key_name(param_name) == Strip(Remove(param_name, SSM_PARAMETER_ROOT))

\* get_all_local_parameters(): the dict of key name to parsed (or raw)
\* value, as the set of its items; a later record replaces an earlier one
\* of the same key name
get_all_local_parameters(w) ==
    LET present(name) == UnderRoot(name) /\ w.rules[name].kind # "absent"
        names == SelectSeq(RuleOrder, present)
    IN  { [key |-> key_name(names[k]), value |-> w.rules[names[k]]] :
            k \in { n \in 1..Len(names) :
                      \A m \in (n + 1)..Len(names) :
                          key_name(names[m]) # key_name(names[n]) } }

\* OWNING_AWS_ACCOUNT by what w.owning says of it: "unset" (None), "empty"
\* (""), "local" (LOCAL_ACCOUNT_ID) or "other" (another account)
OWNING_AWS_ACCOUNT(w) ==
    IF w.owning = "local" THEN LOCAL_ACCOUNT_ID
    ELSE IF w.owning = "other" THEN CentralAccountId
    ELSE EmptyStr

\* Faulty variant: only an unset OWNING_AWS_ACCOUNT counts as not configured
NotConfigured_UnsetOnly(w) == w.owning = "unset"

\* line 59: not OWNING_AWS_ACCOUNT
NotConfigured(w) == w.owning \in {"unset", "empty"}

\* Faulty variant: the role is looked for in the local account
role_arn_Local(w) ==
    <<"arn:aws:iam::">> \o LOCAL_ACCOUNT_ID \o <<":role/">>
        \o CROSS_ACCOUNT_ROLE_NAME

\* line 72: the role assumed in the central account
role_arn(w) ==
    <<"arn:aws:iam::">> \o OWNING_AWS_ACCOUNT(w) \o <<":role/">>
        \o CROSS_ACCOUNT_ROLE_NAME

\* Faulty variant: when assume_role fails the sync goes on with the local client
AssumeRoleFailed_UseLocal(w, p) ==
    Goto(w, [p EXCEPT !.central_client = "local"], "sync_get_parameters")

\* lines 92-95: assume_role failed, the error is logged and raised
AssumeRoleFailed(w, p) == Raise(w, p)

\* sync_parameters_to_central_account() is entered: lines 156-159 and
\* get_central_account_ssm_client()
sync_parameters_to_central_account(w, p, F) ==
    LET q == [p EXCEPT !.sync_count = @ + 1, !.sync_at = Len(p.calls)]
        asked == [q EXCEPT !.assume_role_request =
                     Request(role_arn(w), "ManagementLambdaCentralSync")]
    IN  IF NotConfigured(w) THEN Goto(w, q, "returned")
        ELSE IF OWNING_AWS_ACCOUNT(w) = LOCAL_ACCOUNT_ID
        THEN Goto(w, [q EXCEPT !.central_client = "local"], "sync_get_parameters")
        ELSE IF Faulty(F, "assume_role", EmptyStr, "error")
        THEN AssumeRoleFailed(w, Logged(asked, Call("assume_role", EmptyStr, FALSE)))
        ELSE Goto(w, Logged([asked EXCEPT !.central_client = "assumed"],
                            Call("assume_role", EmptyStr, TRUE)),
                  "sync_get_parameters")

\* Faulty variant: a record whose value is not JSON makes the collection raise
sync_get_parameters_Strict(w, p, F) ==
    IF \/ Faulty(F, "get_parameters_by_path", EmptyStr, "sync")
       \/ \E name \in ParameterNames :
              UnderRoot(name) /\ w.rules[name].kind = "malformed"
    THEN Raise(w, p)
    ELSE Goto(w, [p EXCEPT !.consolidated_config = get_all_local_parameters(w)],
              "sync_put_parameter")

\* line 163: the local rule records are collected
sync_get_parameters(w, p, F) ==
    IF Faulty(F, "get_parameters_by_path", EmptyStr, "sync") THEN Raise(w, p)
    ELSE Goto(w, [p EXCEPT !.consolidated_config = get_all_local_parameters(w)],
              "sync_put_parameter")

\* line 166: the key of the consolidated document, CENTRAL_SSM_PARAMETER_PREFIX
\* followed by LOCAL_ACCOUNT_ID, in the store of the central client
central_param_name == <<"/", "a", "/">> \o LOCAL_ACCOUNT_ID

\* Faulty variant: ParameterNotFound on the central document is raised
AfterCentralDelete_Raise(found) == IF found THEN "returned" ELSE "raised"

\* lines 184-191: where the sync goes on after delete_parameter on the
\* central document; ParameterNotFound is caught
AfterCentralDelete(found) == "returned"

\* Faulty variant: the collected records are merged into the document found
sync_put_parameter_Merge(w, p, F) ==
    IF p.consolidated_config # {}
    THEN IF Faulty(F, "central_put_parameter", EmptyStr, "error")
         THEN Raise(w, Logged(p, Call("central_put_parameter", central_param_name, FALSE)))
         ELSE Goto([w EXCEPT !.central =
                       Doc(p.consolidated_config
                             \cup { e \in w.central.doc :
                                      \A c \in p.consolidated_config :
                                          c.key # e.key })],
                   Logged(p, Call("central_put_parameter", central_param_name, TRUE)),
                   "returned")
    ELSE IF Faulty(F, "central_delete_parameter", EmptyStr, "error")
         THEN Raise(w, Logged(p, Call("central_delete_parameter", central_param_name, FALSE)))
         ELSE Goto([w EXCEPT !.central = NoDoc],
                   Logged(p, Call("central_delete_parameter",
                                  central_param_name, w.central.present)),
                   "returned")

\* lines 166-195: the consolidated document is written, or deleted when
\* there is no local record; any other error is logged and raised
sync_put_parameter(w, p, F) ==
    IF p.consolidated_config # {}
    THEN IF Faulty(F, "central_put_parameter", EmptyStr, "error")
         THEN Raise(w, Logged(p, Call("central_put_parameter", central_param_name, FALSE)))
         ELSE Goto([w EXCEPT !.central = Doc(p.consolidated_config)],
                   Logged(p, Call("central_put_parameter", central_param_name, TRUE)),
                   "returned")
    ELSE IF Faulty(F, "central_delete_parameter", EmptyStr, "error")
         THEN Raise(w, Logged(p, Call("central_delete_parameter", central_param_name, FALSE)))
         ELSE LET q == Logged(p, Call("central_delete_parameter",
                                      central_param_name, w.central.present))
                  next == AfterCentralDelete(w.central.present)
              IN  IF next = "raised" THEN Raise(w, q)
                  ELSE Goto([w EXCEPT !.central = NoDoc], q, next)

(***************************************************************************)
(* One backend call of an invocation, and a whole invocation               *)
(***************************************************************************)
\* The next backend call of invocation p in backend state w, with the calls
\* in F failing, and the handler's work up to the call after it
Step(w, p, F) ==
    CASE p.pc = "add_subscription_filter_to_new_log_group" ->
             add_subscription_filter_to_new_log_group(w, p, F)
      [] p.pc = "add_subscription_filter" -> add_subscription_filter(w, p, F)
      [] p.pc = "put_subscription_filter" -> put_subscription_filter(w, p, F)
      [] p.pc = "add_get_parameter" -> add_get_parameter(w, p, F)
      [] p.pc = "add_subscription_filter_param" ->
             add_subscription_filter_param(w, p, F)
      [] p.pc = "update_subscription_filter_on_existing_log_groups" ->
             update_subscription_filter_on_existing_log_groups(w, p, F)
      [] p.pc = "get_matching_log_groups" -> get_matching_log_groups(w, p, F)
      [] p.pc = "update_get_parameters" -> update_get_parameters(w, p, F)
      [] p.pc = "update_get_tracking" -> update_get_tracking(w, p, F)
      [] p.pc = "update_subscription_filter_param" ->
             update_subscription_filter_param(w, p, F)
      [] p.pc = "reconcile_subscription_filters" ->
             reconcile_subscription_filters(w, p, F)
      [] p.pc = "get_log_groups_with_filters" ->
             get_log_groups_with_filters(w, p, F)
      [] p.pc = "describe_subscription_filters" ->
             describe_subscription_filters(w, p, F)
      [] p.pc = "reconcile_cleanup" -> reconcile_cleanup(w, p, F)
      [] p.pc = "delete_subscription_filter" ->
             delete_subscription_filter(w, p, F)
      [] p.pc = "reconcile_tracking" -> reconcile_tracking(w, p, F)
      [] p.pc = "sync_parameters_to_central_account" ->
             sync_parameters_to_central_account(w, p, F)
      [] p.pc = "sync_get_parameters" -> sync_get_parameters(w, p, F)
      [] p.pc = "sync_put_parameter" -> sync_put_parameter(w, p, F)
      [] OTHER -> Next_(w, p)

\* The invocation run to its end (it returns or raises)
RECURSIVE Run(_, _, _)
Run(w, p, F) ==
    IF Finished(p) THEN Next_(w, p)
    ELSE LET r == Step(w, p, F) IN Run(r.w, r.p, F)

(***************************************************************************)
(* The standalone sync handler, src/examples/sample-lambda/index.py        *)
(***************************************************************************)
\* A value of os.getenv: None (the variable is unset) or a string
Unset == [none |-> TRUE, value |-> EmptyStr]
Value(v) == [none |-> FALSE, value |-> v]

\* get_env(name, required, default) on the value the environment holds for
\* name: str.strip() == "" for a string of blanks
get_env(held, required, default) ==
    LET value == IF held.none THEN default ELSE held
        missing == \/ value.none
                   \/ \A i \in 1..Len(value.value) : value.value[i] = " "
    IN  IF required /\ missing THEN Raised ELSE Ok(value)

\* str.replace(old, new)
RECURSIVE Replace(_, _, _)
Replace(s, old, new) ==
    IF Len(s) < Len(old) \/ Len(old) = 0 THEN s
    ELSE IF SubSeq(s, 1, Len(old)) = old
    THEN new \o Replace(SubSeq(s, Len(old) + 1, Len(s)), old, new)
    ELSE <<Head(s)>> \o Replace(Tail(s), old, new)

\* normalize_param_name(name, old_token, new_token)
normalize_param_name(name, old_token, new_token) ==
    Strip(IF ~old_token.none /\ old_token.value # EmptyStr
          THEN Replace(name, old_token.value, new_token.value)
          ELSE name)

\* assemble_payload(...)["Parameters"], as the set of its items: the
\* parameters are the names fetched, the value of each is the one the
\* store w holds; a later parameter replaces an earlier one of the same key
assemble_payload(w, parameters, source_prefix, old_token, new_token) ==
    LET key_segment(raw) ==
            IF /\ source_prefix # EmptyStr
               /\ Len(raw) >= Len(source_prefix)
               /\ SubSeq(raw, 1, Len(source_prefix)) = source_prefix
            THEN SubSeq(raw, Len(source_prefix) + 1, Len(raw))
            ELSE raw
        normalized(k) ==
            normalize_param_name(key_segment(parameters[k]), old_token, new_token)
    IN  { [key |-> normalized(k), value |-> w.rules[parameters[k]]] :
            k \in { n \in 1..Len(parameters) :
                      \A m \in (n + 1)..Len(parameters) :
                          normalized(m) # normalized(n) } }

\* An invocation of handler(event, context) at its entry, with the
\* environment it runs in; next_token 0 is None
MgmtInvocation(env) ==
    [ pc |-> "handler", env |-> env, params |-> << >>, next_token |-> 0,
      pages |-> 0, calls |-> << >>, raised_at |-> "" ]

\* No invocation of it yet
MgmtIdle ==
    [ MgmtInvocation([SOURCE_PREFIX |-> Unset, OLD_TOKEN |-> Unset,
                      NEW_TOKEN |-> Unset, CENTRAL_ROLE_ARN |-> Unset,
                      CENTRAL_SSM_PARAM_PREFIX |-> Unset])
        EXCEPT !.pc = "idle" ]

\* handler, lines 241-256: the settings are read, the first required one
\* that is missing raising RuntimeError, then get_caller_identity
handler(w, h, F) ==
    LET source_prefix == get_env(h.env.SOURCE_PREFIX, TRUE, Unset)
        new_token == get_env(h.env.NEW_TOKEN, TRUE, Unset)
        central_role_arn == get_env(h.env.CENTRAL_ROLE_ARN, TRUE, Unset)
    IN  IF source_prefix.raised \/ new_token.raised \/ central_role_arn.raised
        THEN Goto(w, [h EXCEPT !.raised_at = "get_env"], "raised")
        ELSE IF Faulty(F, "get_caller_identity", EmptyStr, "handler")
        THEN Raise(w, h)
        ELSE Goto(w, h, "fetch_parameters_by_path")

\* The store's get_parameters_by_path(Path=path, NextToken=next_token): the
\* parameters under path from position next_token on, PageSize of them at
\* most, and the position to go on from, 0 (no NextToken) on the last page
get_parameters_by_path(w, path, next_token) ==
    LET listed(name) == /\ w.rules[name].kind # "absent"
                        /\ Len(name) >= Len(path)
                        /\ SubSeq(name, 1, Len(path)) = path
        names == SelectSeq(RuleOrder, listed)
        last == IF next_token + PageSize < Len(names)
                THEN next_token + PageSize ELSE Len(names)
    IN  [ Parameters |-> SubSeq(names, next_token + 1, last),
          NextToken |-> IF last < Len(names) THEN last ELSE 0 ]

\* Faulty variant: each page replaces the parameters of the pages before it
fetch_parameters_by_path_LastPageOnly(w, h, F) ==
    LET resp == get_parameters_by_path(w, h.env.SOURCE_PREFIX.value, h.next_token)
        q == [h EXCEPT !.params = resp.Parameters,
                       !.next_token = resp.NextToken,
                       !.pages = @ + 1]
    IN  IF Faulty(F, "get_parameters_by_path", EmptyStr, "handler")
        THEN Raise(w, [h EXCEPT !.pages = @ + 1])
        ELSE Goto(w, q, IF resp.NextToken = 0 THEN "assume_role"
                        ELSE "fetch_parameters_by_path")

\* Faulty variant: the loop goes on after a page without a token
LastPage_Never(next_token) == FALSE

\* lines 107-109: if not next_token: break
LastPage(next_token) == next_token = 0

\* fetch_parameters_by_path(ssm, source_prefix), lines 94-109: one turn of
\* the loop, that is one page
fetch_parameters_by_path(w, h, F) ==
    LET resp == get_parameters_by_path(w, h.env.SOURCE_PREFIX.value, h.next_token)
        q == [h EXCEPT !.params = @ \o resp.Parameters,
                       !.next_token = resp.NextToken,
                       !.pages = @ + 1]
    IN  IF Faulty(F, "get_parameters_by_path", EmptyStr, "handler")
        THEN Raise(w, [h EXCEPT !.pages = @ + 1])
        ELSE Goto(w, q, IF LastPage(resp.NextToken) THEN "assume_role"
                        ELSE "fetch_parameters_by_path")

\* Faulty variant: a failed assume_role is passed over and the document written
\* with the credentials at hand
assume_role_Tolerant(w, h, F) ==
    Goto(w, Logged(h, Call("assume_role", h.env.CENTRAL_ROLE_ARN.value,
                           ~Faulty(F, "assume_role", EmptyStr, "handler"))),
         "central_put_parameter")

\* assume_role(sts, central_role_arn), lines 183-206 and 266
assume_role(w, h, F) ==
    IF Faulty(F, "assume_role", EmptyStr, "handler")
    THEN Raise(w, Logged(h, Call("assume_role", h.env.CENTRAL_ROLE_ARN.value, FALSE)))
    ELSE Goto(w, Logged(h, Call("assume_role", h.env.CENTRAL_ROLE_ARN.value, TRUE)),
              "central_put_parameter")

\* str.rstrip("/")
RECURSIVE RStrip(_)
RStrip(s) ==
    IF Len(s) > 0 /\ s[Len(s)] = "/" THEN RStrip(SubSeq(s, 1, Len(s) - 1)) ELSE s

\* lines 245 and 264: CENTRAL_SSM_PARAM_PREFIX, "/central-config/" when it
\* is unset, without its trailing slashes, then a slash and the account id
dest_param(h) ==
    LET central_param_prefix ==
            get_env(h.env.CENTRAL_SSM_PARAM_PREFIX, FALSE,
                    Value(<<"/", "central-config", "/">>)).value
    IN  RStrip(central_param_prefix.value) \o <<"/">> \o LOCAL_ACCOUNT_ID

\* lines 261-285: the payload is assembled and written to the central
\* store, the Parameters of the payload being what w.central holds of it
central_put_parameter(w, h, F) ==
    LET payload == assemble_payload(w, h.params, h.env.SOURCE_PREFIX.value,
                                    h.env.OLD_TOKEN, h.env.NEW_TOKEN)
    IN  IF Faulty(F, "central_put_parameter", EmptyStr, "handler")
        THEN Raise(w, Logged(h, Call("central_put_parameter", dest_param(h), FALSE)))
        ELSE Goto([w EXCEPT !.central = Doc(payload)],
                  Logged(h, Call("central_put_parameter", dest_param(h), TRUE)),
                  "returned")

\* The next backend call of invocation h of the standalone handler
MgmtStep(w, h, F) ==
    CASE h.pc = "handler" -> handler(w, h, F)
      [] h.pc = "fetch_parameters_by_path" -> fetch_parameters_by_path(w, h, F)
      [] h.pc = "assume_role" -> assume_role(w, h, F)
      [] h.pc = "central_put_parameter" -> central_put_parameter(w, h, F)
      [] OTHER -> Next_(w, h)

(***************************************************************************)
(* State: the backends, and the invocations of the handler                 *)
(***************************************************************************)
VARIABLES
    rules,       \* parameter store: the records under SSM_PARAMETER_ROOT
    log_groups,  \* log backend: the log groups that exist
    filters,     \* log backend: the filter named FILTER_NAME_PREFIX per log group
    foreign,     \* log groups with a filter of a longer name that starts with it
    tracking,    \* parameter store: the record FILTERS_TRACKING_PARAM
    central,     \* central store: the consolidated document of this account
    owning,      \* OWNING_AWS_ACCOUNT: "unset", "empty", "local" or "other"
    sender,      \* SENDER_FUNCTION_NAME: "unset" or "set"
    start,       \* the backends when the last invocation was entered
    inv,         \* the last invocation, run to its end
    faults,      \* the backend calls that failed in it
    prev,        \* the invocation before it
    deliveries,  \* times the event of inv has been delivered
    conc,        \* two invocations that overlap: each one's state and trigger
    mgmt         \* the invocation of the standalone sync handler

vars == <<rules, log_groups, filters, foreign, tracking, central, owning,
          sender, start, inv, faults, prev, deliveries, conc, mgmt>>

\* The backends as one value
World ==
    [ rules |-> rules, log_groups |-> log_groups, filters |-> filters,
      foreign |-> foreign, tracking |-> tracking, central |-> central,
      owning |-> owning, sender |-> sender ]

SetWorld(w) ==
    /\ rules' = w.rules
    /\ log_groups' = w.log_groups
    /\ filters' = w.filters
    /\ foreign' = w.foreign
    /\ tracking' = w.tracking
    /\ central' = w.central
    /\ owning' = w.owning
    /\ sender' = w.sender

FilterE == <<"%", "^", "E", "*", "%">>

\* The backend calls that can fail, and the sets of them that fail together
FaultAtoms ==
    { Fault("put_subscription_filter", g, "error") : g \in LogGroups }
    \cup { Fault("delete_subscription_filter", g, "error") : g \in LogGroups }
    \cup { Fault("get_parameters_by_path", EmptyStr, "reconcile") }

FaultSets == { F \in SUBSET FaultAtoms : Cardinality(F) <= MaxFaults }

NoEvent == Event("", EmptyStr)
Idle == [Invocation(NoEvent) EXCEPT !.pc = "idle"]

\* Two invocations, neither triggered yet; write: the value the operator
\* gave the rule record, for a PutParameter event
Invocations == {1, 2}
NotStarted == [n \in Invocations |-> [p |-> Idle, write |-> NoRule]]

Init ==
    /\ rules \in { [name \in ParameterNames |->
                        IF name \in DOMAIN f THEN f[name] ELSE NoRule] :
                     f \in [{KeyA, KeyB} -> {NoRule} \cup RuleValues] }
    /\ log_groups = LogGroups
    /\ filters \in [LogGroups -> {NoFilter, Filter(BracketStr), Filter(FilterE)}]
    /\ foreign \in {{}, {GB}}
    /\ tracking \in {NoParam, Param(PatA), Param(Join(<<GA, GB>>))}
    /\ central = NoDoc
    /\ owning = "other"
    /\ sender = "set"
    /\ start = World
    /\ inv = Idle
    /\ faults = {}
    /\ prev = Idle
    /\ deliveries = 0
    /\ conc = NotStarted
    /\ mgmt = MgmtIdle

\* lambda_handler(event, context), from entry to return or raise
Deliver(event, F) ==
    LET r == Run(World, Invocation(event), F)
    IN  /\ SetWorld(r.w)
        /\ start' = World
        /\ inv' = r.p
        /\ faults' = F
        /\ prev' = inv
        /\ UNCHANGED <<conc, mgmt>>

\* A log group was created
CreateLogGroup ==
    /\ deliveries = 0
    /\ \E g \in LogGroups, F \in FaultSets :
           Deliver(Event("CreateLogGroup", g), F)
    /\ deliveries' = 1

\* A parameter was written
PutParameter ==
    /\ deliveries = 0
    /\ \E name \in {KeyA, KeyB, FILTERS_TRACKING_PARAM}, F \in FaultSets :
           Deliver(Event("PutParameter", name), F)
    /\ deliveries' = 1

\* A parameter was deleted
DeleteParameter ==
    /\ deliveries = 0
    /\ \E name \in {KeyA, KeyB, FILTERS_TRACKING_PARAM}, F \in FaultSets :
           Deliver(Event("DeleteParameter", name), F)
    /\ deliveries' = 1

\* The event is delivered again, nothing else having changed, to a backend
\* where every call succeeds
Redeliver ==
    /\ deliveries \in 1..(MaxDeliveries - 1)
    /\ faults = {}
    /\ Deliver(inv.event, {})
    /\ deliveries' = deliveries + 1

Next == CreateLogGroup \/ PutParameter \/ DeleteParameter \/ Redeliver

Spec == Init /\ [][Next]_vars

(***************************************************************************)
(* The handler with the sync to the central account: every setting of      *)
(* OWNING_AWS_ACCOUNT, parameter names of every shape, every event name    *)
(***************************************************************************)
\* A central document left by an earlier sync, of a rule that is gone
StaleConfig == { [key |-> <<"o", "l", "d">>, value |-> Rule(PatAll, "missing", EmptyStr)] }

\* The calls of the sync, and the rule listing of the pass before it, that
\* can fail
SyncFaultAtoms ==
    { Fault("assume_role", EmptyStr, "error"),
      Fault("central_put_parameter", EmptyStr, "error"),
      Fault("central_delete_parameter", EmptyStr, "error"),
      Fault("get_parameters_by_path", EmptyStr, "sync"),
      Fault("get_parameters_by_path", EmptyStr, "reconcile") }

SyncFaultSets == { F \in SUBSET SyncFaultAtoms : Cardinality(F) <= MaxFaults }

InitSync ==
    /\ rules \in
         { [name \in ParameterNames |->
               IF name = KeyA THEN a
               ELSE IF name = KeyTwice THEN t
               ELSE IF name = KeyAB THEN ab
               ELSE IF name = Outside THEN o
               ELSE NoRule] :
             a \in {NoRule, Rule(PatAll, "missing", EmptyStr), Malformed},
             t \in {NoRule, Rule(PatA, "str", <<"E">>)},
             ab \in {NoRule, Rule(PatB, "str", EmptyStr)},
             o \in {NoRule, Rule(PatAll, "missing", EmptyStr)} }
    /\ log_groups = LogGroups
    /\ filters \in { [g \in LogGroups |-> NoFilter],
                     [g \in LogGroups |-> IF g = GA THEN Filter(BracketStr)
                                          ELSE NoFilter] }
    /\ foreign = {}
    /\ tracking \in {NoParam, Param(PatA)}
    /\ central \in {NoDoc, Doc(StaleConfig)}
    /\ owning \in {"unset", "empty", "local", "other"}
    /\ sender = "set"
    /\ start = World
    /\ inv = Idle
    /\ faults = {}
    /\ prev = Idle
    /\ deliveries = 0
    /\ conc = NotStarted
    /\ mgmt = MgmtIdle

\* The names of the parameter events: rule records, a parameter that holds
\* the root in its name but is not under it, and the tracking record
EventNames == {KeyA, KeyTwice, Outside, FILTERS_TRACKING_PARAM}

OnCreateLogGroup ==
    /\ deliveries = 0
    /\ \E g \in LogGroups, F \in SyncFaultSets :
           Deliver(Event("CreateLogGroup", g), F)
    /\ deliveries' = 1

OnPutParameter ==
    /\ deliveries = 0
    /\ \E name \in EventNames, F \in SyncFaultSets :
           Deliver(Event("PutParameter", name), F)
    /\ deliveries' = 1

OnDeleteParameter ==
    /\ deliveries = 0
    /\ \E name \in EventNames, F \in SyncFaultSets :
           Deliver(Event("DeleteParameter", name), F)
    /\ deliveries' = 1

\* An event of another name reaches the handler
OnOtherEvent ==
    /\ deliveries = 0
    /\ \E name \in {GA, KeyA}, F \in SyncFaultSets :
           Deliver(Event("DeleteLogGroup", name), F)
    /\ deliveries' = 1

NextSync ==
    OnCreateLogGroup \/ OnPutParameter \/ OnDeleteParameter \/ OnOtherEvent
        \/ Redeliver

SpecSync == InitSync /\ [][NextSync]_vars

(***************************************************************************)
(* Two invocations that overlap, interleaved at single backend calls       *)
(***************************************************************************)
InitConc ==
    /\ rules \in { [name \in ParameterNames |->
                        IF name = KeyA THEN value ELSE NoRule] :
                     value \in {NoRule, Rule(PatAll, "missing", EmptyStr)} }
    /\ log_groups = LogGroups
    /\ filters \in { [g \in LogGroups |-> NoFilter],
                     [g \in LogGroups |-> IF g = GA THEN Filter(BracketStr)
                                          ELSE NoFilter] }
    /\ foreign = {}
    /\ tracking \in {NoParam, Param(PatA)}
    /\ central = NoDoc
    /\ owning = "unset"
    /\ sender = "set"
    /\ start = World
    /\ inv = Idle
    /\ faults = {}
    /\ prev = Idle
    /\ deliveries = 0
    /\ conc = NotStarted
    /\ mgmt = MgmtIdle

\* What happened in the account to make the platform send the event: the
\* log group was created, the rule record written or deleted
Trigger(w, event, write) ==
    IF event.eventName = "CreateLogGroup"
    THEN [w EXCEPT !.log_groups = @ \cup {event.name}]
    ELSE IF event.eventName = "PutParameter"
    THEN [w EXCEPT !.rules[event.name] = write]
    ELSE [w EXCEPT !.rules[event.name] = NoRule]

\* Invocation n is triggered; the second one only once the first one runs
Triggered(n, event, write) ==
    /\ conc[n].p.pc = "idle"
    /\ n = 2 => conc[1].p.pc # "idle"
    /\ SetWorld(Trigger(World, event, write))
    /\ conc' = [conc EXCEPT ![n] = [p |-> Invocation(event), write |-> write]]
    /\ UNCHANGED <<start, inv, faults, prev, deliveries, mgmt>>

LogGroupCreatedEvent ==
    \E n \in Invocations, g \in LogGroups :
        Triggered(n, Event("CreateLogGroup", g), NoRule)

RuleWrittenEvent ==
    \E n \in Invocations,
       value \in {Rule(PatA, "str", <<"E">>), Rule(PatAll, "missing", EmptyStr)} :
        Triggered(n, Event("PutParameter", KeyA), value)

RuleDeletedEvent ==
    \E n \in Invocations :
        Triggered(n, Event("DeleteParameter", KeyA), NoRule)

\* Invocation n makes its next backend call
BackendCall ==
    \E n \in Invocations :
        /\ conc[n].p.pc # "idle"
        /\ ~Finished(conc[n].p)
        /\ LET r == Step(World, conc[n].p, {})
           IN  /\ SetWorld(r.w)
               /\ conc' = [conc EXCEPT ![n].p = r.p]
        /\ UNCHANGED <<start, inv, faults, prev, deliveries, mgmt>>

NextConc ==
    LogGroupCreatedEvent \/ RuleWrittenEvent \/ RuleDeletedEvent \/ BackendCall

SpecConc == InitConc /\ [][NextConc]_vars

\* The backends after the two invocations of conc, each with its trigger,
\* ran from state w one after the other: first, then second
OneAfterTheOther(w, first, second) ==
    LET a == Run(Trigger(w, conc[first].p.event, conc[first].write),
                 Invocation(conc[first].p.event), {})
        b == Run(Trigger(a.w, conc[second].p.event, conc[second].write),
                 Invocation(conc[second].p.event), {})
    IN  b.w

\* C4 as claimed: when two overlapping invocations have ended, the managed
\* filters are those that running the two one after the other, in one of
\* the two orders, ends with
C4_OverlappingPassesConverge ==
    (\A n \in Invocations : Finished(conc[n].p))
        => \/ filters = OneAfterTheOther(start, 1, 2).filters
           \/ filters = OneAfterTheOther(start, 2, 1).filters

(***************************************************************************)
(* lambda_handler with SENDER_FUNCTION_NAME set or not, and with log       *)
(* groups and filters that are gone when the call for them arrives         *)
(***************************************************************************)
\* The calls that can fail, "notfound" being ResourceNotFoundException
DriftFaultAtoms ==
    { Fault(op, g, kind) :
        op \in {"describe_subscription_filters", "delete_subscription_filter"},
        g \in LogGroups, kind \in {"notfound", "error"} }
    \cup { Fault("put_subscription_filter", g, "error") : g \in LogGroups }

InitDrift ==
    /\ rules \in
         { [name \in ParameterNames |->
               IF name = KeyA THEN a
               ELSE IF name = KeyAB THEN ab
               ELSE IF name = KeyB THEN b
               ELSE NoRule] :
             a \in {NoRule, Rule(PatA, "str", <<"E">>),
                    Rule(<<"/", "z">>, "missing", EmptyStr)},
             ab \in {NoRule, Malformed},
             b \in {NoRule, Rule(PatB, "str", EmptyStr)} }
    /\ log_groups = LogGroups
    /\ filters \in { [g \in LogGroups |-> NoFilter],
                     [g \in LogGroups |-> IF g = GB THEN Filter(BracketStr)
                                          ELSE NoFilter],
                     [g \in LogGroups |-> Filter(BracketStr)] }
    /\ foreign = {}
    /\ tracking \in {NoParam, Param(PatA)}
    /\ central = NoDoc
    /\ owning = "other"
    /\ sender \in {"set", "unset"}
    /\ start = World
    /\ inv = Idle
    /\ faults = {}
    /\ prev = Idle
    /\ deliveries = 0
    /\ conc = NotStarted
    /\ mgmt = MgmtIdle

\* lambda_handler is invoked with an event
Delivered ==
    /\ deliveries = 0
    /\ \E event \in { Event("CreateLogGroup", GA), Event("CreateLogGroup", GB),
                      Event("PutParameter", KeyA), Event("PutParameter", KeyB),
                      Event("DeleteParameter", KeyA) },
          F \in { G \in SUBSET DriftFaultAtoms : Cardinality(G) <= MaxFaults } :
           Deliver(event, F)
    /\ deliveries' = 1

SpecDrift == InitDrift /\ [][Delivered]_vars

(***************************************************************************)
(* One invocation, of lambda_handler or of the standalone handler, run one *)
(* backend call at a time by the Lambda runtime until it returns or raises *)
(***************************************************************************)
\* The calls of lambda_handler that can fail
LiveFaultAtoms ==
    { Fault("put_subscription_filter", GA, "error"),
      Fault("put_subscription_filter", GB, "error"),
      Fault("delete_subscription_filter", GA, "error"),
      Fault("delete_subscription_filter", GA, "notfound"),
      Fault("describe_subscription_filters", GA, "notfound"),
      Fault("assume_role", EmptyStr, "error") }

\* The calls of the standalone handler that can fail
MgmtFaultAtoms ==
    { Fault(op, EmptyStr, "handler") :
        op \in {"get_caller_identity", "get_parameters_by_path", "assume_role",
                "central_put_parameter"} }

\* The environments of the standalone handler: every setting held, with and
\* without OLD_TOKEN, NEW_TOKEN a name that is or is not in use already,
\* CENTRAL_SSM_PARAM_PREFIX unset, with and without trailing slashes, and
\* each required setting unset or blank
Environments ==
    LET env == [SOURCE_PREFIX |-> Value(SSM_PARAMETER_ROOT), OLD_TOKEN |-> Unset,
                NEW_TOKEN |-> Value(<<"n">>), CENTRAL_ROLE_ARN |-> Value(<<"R">>),
                CENTRAL_SSM_PARAM_PREFIX |-> Unset]
    IN  { env,
          [env EXCEPT !.OLD_TOKEN = Value(<<"a">>)],
          [env EXCEPT !.OLD_TOKEN = Value(<<"a">>), !.NEW_TOKEN = Value(<<"b">>)],
          [env EXCEPT !.CENTRAL_SSM_PARAM_PREFIX = Value(<<"/", "p", "/", "/">>)],
          [env EXCEPT !.CENTRAL_SSM_PARAM_PREFIX = Value(<<"/", "p">>)],
          [env EXCEPT !.SOURCE_PREFIX = Unset],
          [env EXCEPT !.SOURCE_PREFIX = Value(<<" ">>)],
          [env EXCEPT !.NEW_TOKEN = Unset],
          [env EXCEPT !.NEW_TOKEN = Value(EmptyStr)],
          [env EXCEPT !.CENTRAL_ROLE_ARN = Unset] }

InitLive ==
    /\ rules \in
         { [name \in ParameterNames |->
               IF name = KeyA THEN a
               ELSE IF name = KeyAB THEN ab
               ELSE IF name = KeyB THEN b
               ELSE NoRule] :
             a \in {NoRule, Rule(PatAll, "missing", EmptyStr)},
             ab \in {NoRule, Malformed},
             b \in {NoRule, Rule(PatB, "str", EmptyStr)} }
    /\ log_groups = LogGroups
    /\ filters \in { [g \in LogGroups |-> NoFilter],
                     [g \in LogGroups |-> Filter(BracketStr)] }
    /\ foreign = {}
    /\ tracking = Param(PatA)
    /\ central = NoDoc
    /\ owning = "other"
    /\ sender = "set"
    /\ start = World
    /\ inv = Idle
    /\ faults = {}
    /\ prev = Idle
    /\ deliveries = 0
    /\ conc = NotStarted
    /\ mgmt = MgmtIdle

\* The platform invokes lambda_handler with an event
Invoked ==
    /\ inv.pc = "idle" /\ mgmt.pc = "idle"
    /\ \E event \in { Event("CreateLogGroup", GA), Event("PutParameter", KeyA),
                      Event("PutParameter", KeyB), Event("DeleteParameter", KeyA) },
          F \in { G \in SUBSET LiveFaultAtoms : Cardinality(G) <= MaxFaults } :
           /\ inv' = Invocation(event)
           /\ faults' = F
    /\ start' = World
    /\ SetWorld(World)
    /\ UNCHANGED <<prev, deliveries, conc, mgmt>>

\* lambda_handler makes its next backend call
HandlerCall ==
    /\ inv.pc # "idle" /\ ~Finished(inv)
    /\ \E r \in {Step(World, inv, faults)} : SetWorld(r.w) /\ inv' = r.p
    /\ UNCHANGED <<start, faults, prev, deliveries, conc, mgmt>>

\* The platform invokes the standalone handler
MgmtInvoked ==
    /\ inv.pc = "idle" /\ mgmt.pc = "idle"
    /\ \E env \in Environments,
          F \in { G \in SUBSET MgmtFaultAtoms : Cardinality(G) <= MaxFaults } :
           /\ mgmt' = MgmtInvocation(env)
           /\ faults' = F
    /\ start' = World
    /\ SetWorld(World)
    /\ UNCHANGED <<inv, prev, deliveries, conc>>

\* The standalone handler makes its next backend call, the pages it asks
\* for being capped at MaxPages
MgmtCall ==
    /\ mgmt.pc \notin {"idle", "returned", "raised"}
    /\ mgmt.pc = "fetch_parameters_by_path" => mgmt.pages < MaxPages
    /\ \E r \in {MgmtStep(World, mgmt, faults)} : SetWorld(r.w) /\ mgmt' = r.p
    /\ UNCHANGED <<start, inv, faults, prev, deliveries, conc>>

NextLive == Invoked \/ HandlerCall \/ MgmtInvoked \/ MgmtCall

\* The runtime runs a handler it has entered until the handler returns or
\* raises: a call that can be made is made
SpecLive ==
    InitLive /\ [][NextLive]_vars /\ WF_vars(HandlerCall) /\ WF_vars(MgmtCall)

(***************************************************************************)
(* The standalone sync handler on its own, over every content of the       *)
(* parameters under SOURCE_PREFIX                                          *)
(***************************************************************************)
InitMgmt ==
    /\ rules \in
         { [name \in ParameterNames |->
               IF name \notin held THEN NoRule
               ELSE IF name = KeyA THEN Rule(PatA, "str", <<"E">>)
               ELSE IF name = KeyB THEN Rule(PatB, "str", EmptyStr)
               ELSE Rule(PatAll, "missing", EmptyStr)] :
             held \in SUBSET {KeyA, KeyTwice, KeyAB, KeyB} }
    /\ log_groups = LogGroups
    /\ filters = [g \in LogGroups |-> NoFilter]
    /\ foreign = {}
    /\ tracking = NoParam
    /\ central \in {NoDoc, Doc(StaleConfig)}
    /\ owning = "other"
    /\ sender = "set"
    /\ start = World
    /\ inv = Idle
    /\ faults = {}
    /\ prev = Idle
    /\ deliveries = 0
    /\ conc = NotStarted
    /\ mgmt = MgmtIdle

NextMgmt == MgmtInvoked \/ MgmtCall

SpecMgmt == InitMgmt /\ [][NextMgmt]_vars

(***************************************************************************)
(* Two log groups created at about the same time: two invocations on the   *)
(* new-log-group path, interleaved at single backend calls                 *)
(***************************************************************************)
InitRace ==
    /\ rules = [name \in ParameterNames |->
                   IF name = KeyA THEN Rule(PatAll, "missing", EmptyStr)
                   ELSE NoRule]
    /\ log_groups = LogGroups
    /\ filters = [g \in LogGroups |-> NoFilter]
    /\ foreign = {}
    /\ tracking \in {Param(<<"/", "z">>), Param(PatA)}
    /\ central = NoDoc
    /\ owning = "unset"
    /\ sender = "set"
    /\ start = World
    /\ inv = Idle
    /\ faults = {}
    /\ prev = Idle
    /\ deliveries = 0
    /\ conc = NotStarted
    /\ mgmt = MgmtIdle

NextRace == LogGroupCreatedEvent \/ BackendCall

SpecRace == InitRace /\ [][NextRace]_vars

(***************************************************************************)
(* sync_parameters_to_central_account() called on its own, over every      *)
(* content of the local rule records                                       *)
(***************************************************************************)
InitCollect ==
    /\ rules \in
         { [name \in ParameterNames |->
               IF name = KeyA THEN a
               ELSE IF name = KeyTwice THEN t
               ELSE IF name = KeyAB THEN ab
               ELSE IF name = KeyB THEN b
               ELSE o] :
             a \in {NoRule, Rule(PatA, "str", <<"E">>), Malformed},
             t \in {NoRule, Rule(PatAll, "missing", EmptyStr), Malformed},
             ab \in {NoRule, Rule(PatB, "str", EmptyStr), Malformed},
             b \in {NoRule, Malformed},
             o \in {NoRule, Malformed} }
    /\ log_groups = LogGroups
    /\ filters = [g \in LogGroups |-> NoFilter]
    /\ foreign = {}
    /\ tracking = NoParam
    /\ central \in {NoDoc, Doc(StaleConfig)}
    /\ owning \in {"local", "other"}
    /\ sender = "set"
    /\ start = World
    /\ inv = Idle
    /\ faults = {}
    /\ prev = Idle
    /\ deliveries = 0
    /\ conc = NotStarted
    /\ mgmt = MgmtIdle

\* lines 141-195: one call of sync_parameters_to_central_account()
SyncCalled ==
    /\ deliveries = 0
    /\ \E F \in SyncFaultSets :
           LET entered == [Invocation(NoEvent) EXCEPT
                              !.pc = "sync_parameters_to_central_account"]
               r == Run(World, entered, F)
           IN  /\ SetWorld(r.w)
               /\ start' = World
               /\ inv' = r.p
               /\ faults' = F
               /\ prev' = inv
    /\ deliveries' = 1
    /\ UNCHANGED <<conc, mgmt>>

SpecCollect == InitCollect /\ [][SyncCalled]_vars

(***************************************************************************)
(* Properties                                                              *)
(***************************************************************************)
\* The event was routed to the rule-written or to the rule-deleted branch
RulePut(p) ==
    lambda_handler(p.event) = "update_subscription_filter_on_existing_log_groups"
RuleDeleted(p) == lambda_handler(p.event) = "reconcile_subscription_filters"
RuleChanged(p) == RulePut(p) \/ RuleDeleted(p)
LogGroupCreated(p) ==
    lambda_handler(p.event) = "add_subscription_filter_to_new_log_group"

\* The pattern of some rule record matches the log group
Readable(name) == rules[name].kind = "object" /\ rules[name].has_pattern
MatchesSomeRule(g) ==
    \E name \in RuleNames : Readable(name) /\ fnmatch(g, rules[name].pattern)

\* The patterns of the rule records, in store order
CurrentPatterns ==
    LET parameters == get_parameters_generator(World)
    IN  [k \in 1..Len(parameters) |-> parameters[k].pattern]

\* The successful calls of operation op among the calls of p
Made(p, op) == { k \in 1..Len(p.calls) : p.calls[k].op = op /\ p.calls[k].ok }
Attempted(p, op) == { k \in 1..Len(p.calls) : p.calls[k].op = op }
Mutating ==
    {"put_subscription_filter", "delete_subscription_filter",
     "put_parameter", "delete_parameter"}

\* reconcile_subscription_filters was entered and returned
Reconciled(p) == p.before_reconcile.entered /\ p.pc = "returned"

Range(seq) == { seq[k] : k \in 1..Len(seq) }

C2_NoOrphanFilter ==
    (Reconciled(inv) /\ faults = {})
        => \A g \in log_groups : filters[g].present => MatchesSomeRule(g)

\* C2 witness: the pass removed the filter of a log group no rule matches
C2_Witness ==
    /\ Reconciled(inv) /\ faults = {}
    /\ \E g \in log_groups :
           start.filters[g].present /\ ~filters[g].present /\ ~MatchesSomeRule(g)
    /\ \E g \in log_groups : filters[g].present

\* C3 as claimed: the second of two successive runs of a rule-change event
\* makes no mutating backend call
C3_SecondRunMakesNoCall ==
    (deliveries >= 2 /\ RuleChanged(inv) /\ prev.pc = "returned"
                     /\ inv.pc = "returned")
        => \A k \in 1..Len(inv.calls) : inv.calls[k].op \notin Mutating

\* C5 as claimed: get_prefix gives "[]" for a prefix that is "", None,
\* missing or "[]", and "%^" + p + "*%" for any other prefix p
C5_PrefixMapping ==
    inv.got_prefix.called
        => LET json_data == inv.got_prefix.json_data
               plain == \/ json_data.prefix_kind \in {"missing", "null"}
                        \/ json_data.prefix \in {EmptyStr, BracketStr}
           IN  inv.got_prefix.result =
                   IF plain THEN Ok(BracketStr)
                   ELSE Ok(<<"%", "^">> \o json_data.prefix \o <<"*", "%">>)

\* C6: a delete_subscription_filter that fails on one log group marked for
\* removal keeps no other marked log group from losing its filter, counts
\* as one failure, is not raised, and the pass goes on to rewrite the
\* tracking record
C6_PartialFailureIsolation ==
    LET marked == Range(inv.filters_to_remove)
        failed == { g \in marked :
                      Fault("delete_subscription_filter", g, "error") \in faults }
        rewrites == Attempted(inv, "put_parameter")
                        \cup Attempted(inv, "delete_parameter")
    IN  marked # {}
          => /\ inv.failed_count = Cardinality(failed)
             /\ inv.removed_count = Cardinality(marked \ failed)
             /\ \A g \in marked \ failed : ~filters[g].present
             /\ \A g \in failed : filters[g] = start.filters[g]
             /\ inv.raised_at # "delete_subscription_filter"
             /\ \E k \in rewrites :
                    \A d \in Attempted(inv, "delete_subscription_filter") : d < k

\* C6 witness: two log groups marked, the deletion failed on one and the
\* other lost its filter
C6_Witness ==
    /\ Len(inv.filters_to_remove) = 2
    /\ inv.failed_count = 1
    /\ inv.removed_count = 1
    /\ \E g \in Range(inv.filters_to_remove) :
           start.filters[g].present /\ ~filters[g].present
    /\ \E g \in Range(inv.filters_to_remove) : filters[g].present

\* C7: when the rule listing fails or a rule record is not valid JSON or
\* lacks its pattern, reconcile_subscription_filters raises with no filter
\* deleted, and every filter and the tracking record as they were
C7_FailClosedRuleRead ==
    (/\ inv.before_reconcile.entered
     /\ \/ Fault("get_parameters_by_path", EmptyStr, "reconcile") \in faults
        \/ \E name \in RuleNames :
               rules[name].kind # "absent" /\ ~Readable(name))
        => /\ inv.raised_at = "reconcile_subscription_filters"
           /\ Attempted(inv, "delete_subscription_filter") = {}
           /\ Attempted(inv, "delete_parameter") = {}
           /\ filters = inv.before_reconcile.filters
           /\ tracking = inv.before_reconcile.tracking
           /\ RuleDeleted(inv) =>
                 (filters = start.filters /\ tracking = start.tracking
                                          /\ inv.calls = << >>)

\* C7 witness: a pass stopped by an unreadable record while a log group no
\* readable rule matches carries the filter
C7_Witness ==
    /\ inv.raised_at = "reconcile_subscription_filters"
    /\ faults = {}
    /\ \E g \in log_groups : filters[g].present /\ ~MatchesSomeRule(g)
    /\ tracking.present

\* The entries of the tracking record
TrackingEntries == IF tracking.present THEN Range(Split(tracking.value)) ELSE {}

C10_FilterAndTrackingPaired ==
    (LogGroupCreated(inv) /\ Finished(inv) /\ faults = {})
        => \/ /\ Cardinality(Made(inv, "put_subscription_filter")) = 1
              /\ Cardinality(Made(inv, "put_parameter")) = 1
              /\ Len(inv.calls) = 2
           \/ inv.calls = << >>

\* C11: a filter the handler puts on a log group, on the new-log-group
\* path and on the rule-written path alike, has the get_prefix of the first
\* rule in store order whose pattern matches the log group as its pattern;
\* when no rule matches a created log group, no filter is put and no record
\* is written
C11_FirstMatchSelection ==
    LET parameters == get_parameters_generator(World)
        put == { g \in log_groups :
                   \E k \in Made(inv, "put_subscription_filter") :
                       inv.calls[k].target = g }
    IN  /\ \A g \in put :
               /\ filters[g].present
               /\ \E k \in 1..Len(parameters) :
                      /\ fnmatch(g, parameters[k].pattern)
                      /\ \A m \in 1..(k - 1) : ~fnmatch(g, parameters[m].pattern)
                      /\ filters[g] = Filter(get_prefix(parameters[k]).value)
        /\ (LogGroupCreated(inv) /\ ~MatchesSomeRule(inv.event.name))
              => /\ inv.calls = << >>
                 /\ filters = start.filters
                 /\ tracking = start.tracking

\* C11 witness: the second of two rules that match /a/x was written, and
\* the filter put on /a/x has the prefix of the first
C11_Witness ==
    /\ RulePut(inv) /\ inv.event.name = KeyB
    /\ rules[KeyA] = Rule(PatA, "str", <<"E">>)
    /\ rules[KeyB] = Rule(PatAll, "missing", EmptyStr)
    /\ start.filters[GA] = Filter(BracketStr)
    /\ Made(inv, "put_subscription_filter") # {}
    /\ filters[GA] = Filter(FilterE)
    /\ filters[GB] = Filter(BracketStr)

\* The calls of the sync: role assumption and the central store
SyncCalls == {"assume_role", "central_put_parameter", "central_delete_parameter"}

\* C12: with OWNING_AWS_ACCOUNT unset or empty, a sync that is entered
\* returns without error and makes no assume_role call and no put_parameter
\* or delete_parameter call on the central store
C12_SyncNoOpGuard ==
    (owning \in {"unset", "empty"} /\ inv.sync_count > 0)
        => /\ inv.pc = "returned"
           /\ \A op \in SyncCalls : Attempted(inv, op) = {}
           /\ ~inv.assume_role_request.made
           /\ central = start.central

\* C12 witness: a rule was deleted with OWNING_AWS_ACCOUNT empty, the sync
\* was entered and the central document of an earlier sync is still there
C12_Witness ==
    /\ owning = "empty"
    /\ RuleDeleted(inv) /\ inv.sync_count = 1 /\ inv.pc = "returned"
    /\ CurrentPatterns = << >>
    /\ central = Doc(StaleConfig)

\* The rule records of the local store
LocalRules == { name \in RuleNames : rules[name].kind # "absent" }

\* The sync ran to its end with a central account configured
Synced(p) ==
    /\ owning \in {"local", "other"}
    /\ p.sync_count > 0
    /\ p.pc = "returned"

\* A parameter name without the leading SSM_PARAMETER_ROOT
WithoutRoot(name) == SubSeq(name, Len(SSM_PARAMETER_ROOT) + 1, Len(name))

\* C13 as claimed: after a sync with a central account configured and a
\* local rule record, the central document has exactly one entry for each
\* local rule record, keyed by the record's name with the root prefix
\* stripped and the slashes of a nested key kept
C13_SyncContent ==
    (Synced(inv) /\ LocalRules # {})
        => central = Doc({ [key |-> WithoutRoot(name), value |-> rules[name]] :
                             name \in LocalRules })

\* C14: when the sync finds no local rule record and a central account is
\* configured, it calls delete_parameter on the central document and never
\* put_parameter, the document is absent afterwards, and when it was absent
\* already (ParameterNotFound) the sync returns without raising
C14_DeleteOnEmptySync ==
    (/\ owning \in {"local", "other"}
     /\ inv.sync_count > 0
     /\ LocalRules = {}
     /\ faults = {})
        => /\ inv.pc = "returned"
           /\ Cardinality(Attempted(inv, "central_delete_parameter")) = 1
           /\ Attempted(inv, "central_put_parameter") = {}
           /\ central = NoDoc
           /\ \A k \in Attempted(inv, "central_delete_parameter") :
                  inv.calls[k].ok = start.central.present

\* C14 witness: the last rule was deleted, the central document was absent
\* already, and the sync returned
C14_Witness ==
    /\ owning = "other"
    /\ RuleDeleted(inv) /\ inv.pc = "returned" /\ faults = {}
    /\ LocalRules = {}
    /\ ~start.central.present
    /\ Attempted(inv, "central_delete_parameter") # {}
    /\ Made(inv, "central_delete_parameter") = {}

\* C15: when the central account is another account and assume_role fails,
\* the sync raises, assume_role is called once and not again, and no
\* put_parameter or delete_parameter is made on the central store
C15_RoleAssumptionFailureFatal ==
    (/\ owning = "other"
     /\ inv.sync_count > 0
     /\ Fault("assume_role", EmptyStr, "error") \in faults)
        => /\ inv.pc = "raised"
           /\ inv.raised_at = "sync_parameters_to_central_account"
           /\ Cardinality(Attempted(inv, "assume_role")) = 1
           /\ Made(inv, "assume_role") = {}
           /\ Attempted(inv, "central_put_parameter") = {}
           /\ Attempted(inv, "central_delete_parameter") = {}
           /\ central = start.central

\* C15 witness: a rule was written, the reconciliation ran, assume_role
\* failed and the central document of an earlier sync is as it was
C15_Witness ==
    /\ owning = "other"
    /\ RulePut(inv) /\ inv.before_reconcile.entered
    /\ Fault("assume_role", EmptyStr, "error") \in faults
    /\ inv.pc = "raised"
    /\ LocalRules # {}
    /\ central = Doc(StaleConfig)

\* The calls of p on the central store
CentralStoreCalls(p) ==
    Attempted(p, "central_put_parameter")
        \cup Attempted(p, "central_delete_parameter")

\* C16: when OWNING_AWS_ACCOUNT is the local account the sync works with the
\* local client and calls assume_role never; when it is another account it
\* calls assume_role once, for arn:aws:iam::<that account>:role/<role name>
\* and the session name ManagementLambdaCentralSync, before any call on the
\* central store
C16_CentralClientResolution ==
    inv.sync_count > 0
        => /\ owning = "local"
                => /\ Attempted(inv, "assume_role") = {}
                   /\ ~inv.assume_role_request.made
                   /\ inv.central_client = "local"
           /\ owning = "other"
                => /\ Cardinality(Attempted(inv, "assume_role")) = 1
                   /\ inv.assume_role_request =
                          Request(<<"arn:aws:iam::">> \o CentralAccountId
                                      \o <<":role/">> \o CROSS_ACCOUNT_ROLE_NAME,
                                  "ManagementLambdaCentralSync")
                   /\ \A c \in CentralStoreCalls(inv) :
                          /\ inv.central_client = "assumed"
                          /\ \E a \in Made(inv, "assume_role") : a < c

\* C16 witness: the central account is another account, the role was
\* assumed and the central document written
C16_Witness ==
    /\ owning = "other"
    /\ inv.pc = "returned"
    /\ Made(inv, "assume_role") # {}
    /\ Made(inv, "central_put_parameter") # {}
    /\ central # start.central

\* The number of subscription filters of log group g whose name starts
\* with the managed name, in the backends w
FilterCount(w, g) ==
    (IF w.filters[g].present THEN 1 ELSE 0) + (IF g \in w.foreign THEN 1 ELSE 0)

\* C17: in every reachable state a log group has at most one filter of the
\* managed name, and no invocation creates a filter of another name: a
\* put_subscription_filter on a log group that has the managed filter
\* replaces it, and the filters of other names are those there before
C17_OneManagedFilter ==
    \A g \in log_groups :
        /\ (g \in foreign) = (g \in start.foreign)
        /\ FilterCount(World, g) <=
               FilterCount(start, g) + (IF start.filters[g].present THEN 0 ELSE 1)

\* C17 witness: the event was handled twice, the second run put the filter
\* again on a log group that had it, and on a log group with a filter of
\* another name
C17_Witness ==
    /\ deliveries = 2
    /\ start.filters[GA].present /\ start.filters[GB].present
    /\ GB \in foreign
    /\ \E k \in Made(inv, "put_subscription_filter") : inv.calls[k].target = GA
    /\ \E k \in Made(inv, "put_subscription_filter") : inv.calls[k].target = GB
    /\ FilterCount(World, GA) = 1
    /\ FilterCount(World, GB) = 2

\* The event names a parameter that is not under SSM_PARAMETER_ROOT, or is
\* of a name the handler does not know
OutsideRoot(event) ==
    /\ event.eventName \in {"PutParameter", "DeleteParameter"}
    /\ ~UnderRoot(event.name)
UnknownEvent(event) ==
    event.eventName \notin {"", "CreateLogGroup", "PutParameter", "DeleteParameter"}

\* C18 as claimed: a PutParameter or DeleteParameter event for a parameter
\* that is not under the rule root, and an event of any other name than
\* the three handled, leaves filters, tracking record and central document
\* as they were and enters no sync
C18_EventRoutingFrame ==
    (OutsideRoot(inv.event) \/ UnknownEvent(inv.event))
        => /\ filters = start.filters
           /\ tracking = start.tracking
           /\ central = start.central
           /\ inv.sync_count = 0
           /\ inv.calls = << >>

\* The steps of sync_parameters_to_central_account
SyncSites ==
    {"sync_parameters_to_central_account", "sync_get_parameters",
     "sync_put_parameter"}

\* The invocation ended, and nothing raised before the sync
PassCompleted(p) == Finished(p) /\ p.raised_at \in {""} \cup SyncSites

\* C19 as claimed: every PutParameter or DeleteParameter event for a
\* parameter under the rule root has sync_parameters_to_central_account
\* entered once in its invocation
C19_EveryRuleEventSyncs ==
    (RuleChanged(inv) /\ UnderRoot(inv.event.name) /\ Finished(inv))
        => inv.sync_count = 1

\* C19 amended: a PutParameter or DeleteParameter event for a parameter
\* under the rule root has sync_parameters_to_central_account entered once,
\* after the reconciliation pass and every call of it, when the filter
\* update and the reconciliation pass do not raise; when one of them raises
\* the sync is not entered in that invocation
C19_SyncFollowsCompletedPass ==
    (RuleChanged(inv) /\ UnderRoot(inv.event.name) /\ Finished(inv))
        => /\ inv.sync_count = IF PassCompleted(inv) THEN 1 ELSE 0
           /\ inv.sync_count = 1
                => /\ inv.before_reconcile.entered
                   /\ \A k \in 1..Len(inv.calls) :
                          (inv.calls[k].op \in SyncCalls) = (k > inv.sync_at)
           /\ inv.sync_count = 0
                => \A k \in 1..Len(inv.calls) : inv.calls[k].op \notin SyncCalls

\* C19 witness: a rule was written, the pass put a filter and rewrote the
\* tracking record, and the sync then wrote the central document
C19_Witness ==
    /\ RulePut(inv) /\ UnderRoot(inv.event.name) /\ inv.pc = "returned"
    /\ inv.sync_count = 1
    /\ Made(inv, "put_subscription_filter") # {}
    /\ Made(inv, "central_put_parameter") # {}
    /\ inv.sync_at > 0 /\ inv.sync_at < Len(inv.calls)

\* C20: handling a CreateLogGroup event enters no sync: no assume_role call
\* and no call on the central store is made, whatever the rules are
C20_CreateLogGroupNeverSyncs ==
    LogGroupCreated(inv)
        => /\ inv.sync_count = 0
           /\ \A k \in 1..Len(inv.calls) : inv.calls[k].op \notin SyncCalls
           /\ ~inv.assume_role_request.made
           /\ inv.central_client = "none"
           /\ central = start.central

\* C20 witness: a created log group got its filter with a central account
\* configured, and the central document of an earlier sync is as it was
C20_Witness ==
    /\ LogGroupCreated(inv) /\ inv.pc = "returned"
    /\ owning = "other"
    /\ LocalRules # {}
    /\ Made(inv, "put_subscription_filter") # {}
    /\ Made(inv, "put_parameter") # {}
    /\ central = Doc(StaleConfig)

\* C21 as claimed: an invocation leaves every record under the rule root as
\* it was, and the only key of the local store it writes or deletes is the
\* tracking record
C21_OnlyTrackingWritten ==
    /\ rules = start.rules
    /\ \A k \in 1..Len(inv.calls) :
           LET call == inv.calls[k]
               local == \/ call.op \in {"put_parameter", "delete_parameter"}
                        \/ /\ call.op \in {"central_put_parameter",
                                           "central_delete_parameter"}
                           /\ inv.central_client = "local"
           IN  local => call.target = FILTERS_TRACKING_PARAM

\* C21 amended: an invocation leaves every record under the rule root as it
\* was; the keys of the local store it writes or deletes are the tracking
\* record and, when OWNING_AWS_ACCOUNT is the local account, the
\* consolidated document, neither of them under the rule root
C21_RuleRecordsReadOnly ==
    /\ rules = start.rules
    /\ \A k \in 1..Len(inv.calls) :
           LET call == inv.calls[k]
           IN  /\ call.op \in {"put_parameter", "delete_parameter"}
                      => call.target = FILTERS_TRACKING_PARAM
               /\ call.op \in {"central_put_parameter", "central_delete_parameter"}
                      => /\ call.target = central_param_name
                         /\ (inv.central_client = "local") = (owning = "local")
               /\ call.op \in {"put_parameter", "delete_parameter",
                               "central_put_parameter", "central_delete_parameter"}
                      => ~UnderRoot(call.target)

\* C21 witness: a rule was deleted with the local account as the central
\* one; the pass rewrote the tracking record, the sync wrote the
\* consolidated document with the local client, and the rules are as before
C21_Witness ==
    /\ RuleDeleted(inv) /\ inv.pc = "returned"
    /\ owning = "local" /\ inv.central_client = "local"
    /\ Made(inv, "put_parameter") # {}
    /\ Made(inv, "central_put_parameter") # {}
    /\ LocalRules # {}

\* C24: an invocation of lambda_handler that was entered finishes, and so
\* does one of the standalone handler; the paging loop of
\* fetch_parameters_by_path has asked for exactly the pages of the listing
\* when it is left, the last of them the first without a token
C24_Termination ==
    /\ (inv.pc # "idle") ~> Finished(inv)
    /\ (mgmt.pc # "idle") ~> (mgmt.pc \in {"returned", "raised"})
    /\ [](mgmt.pc \in {"assume_role", "central_put_parameter", "returned"}
            => LET n == Cardinality(LocalRules)
               IN  /\ mgmt.next_token = 0
                   /\ Len(mgmt.params) = n
                   /\ mgmt.pages * PageSize >= n
                   /\ (mgmt.pages - 1) * PageSize < n \/ mgmt.pages = 1)

\* C24 witness: the standalone handler returned after a listing of three
\* pages
C24_Witness ==
    /\ mgmt.pc = "returned"
    /\ mgmt.pages = 3
    /\ Len(mgmt.params) = 3

\* C22 as claimed: with SENDER_FUNCTION_NAME unset no invocation gets as far
\* as a put_subscription_filter call: it has raised before the destination
\* of a filter is formed
C22_MissingSettingFatalBeforeMutation ==
    (sender = "unset" /\ inv.pc # "idle")
        => /\ Attempted(inv, "put_subscription_filter") = {}
           /\ inv.destinationArn = EmptyStr

\* C23 as claimed: a trigger event delivered a second time, nothing else
\* having changed, leaves the managed filters with their patterns, the
\* tracking record and the central document as the first delivery left
\* them
C23_DuplicatedTriggerHarmless ==
    (deliveries >= 2 /\ prev.pc = "returned")
        => /\ filters = start.filters
           /\ tracking = start.tracking
           /\ central = start.central

\* C25 as claimed: in a rule-written invocation a put_subscription_filter
\* that fails on one matched log group keeps no other matched log group
\* from its put_subscription_filter call
C25_FailOpenWhenAdding ==
    RulePut(inv)
        => \A g \in Range(inv.matched_log_groups) :
               (\E k \in Attempted(inv, "put_subscription_filter") :
                    inv.calls[k].target = g /\ ~inv.calls[k].ok)
                   => \A h \in Range(inv.matched_log_groups) :
                          \E k \in Attempted(inv, "put_subscription_filter") :
                              inv.calls[k].target = h

\* C26 as claimed: the log groups get_log_groups_with_filters returns to a
\* reconciliation pass are exactly those that carry a filter named
\* FILTER_NAME_PREFIX
C26_DiscoveryByExactName ==
    (Reconciled(inv) /\ faults = {})
        => Range(inv.log_groups_with_filters)
               = { g \in log_groups : inv.before_reconcile.filters[g].present }

\* C27: when describe_subscription_filters answers ResourceNotFound for a
\* listed log group, the scan does not raise, leaves that group out, and
\* returns every other listed log group that carries the managed filter
C27_ScanTolerance ==
    \A g \in LogGroups :
        (/\ Fault("describe_subscription_filters", g, "notfound") \in faults
         /\ InList(g, inv.scan))
            => /\ inv.raised_at # "describe_subscription_filters"
               /\ ~InList(g, inv.log_groups_with_filters)
               /\ \A h \in Range(inv.scan) \ {g} :
                      (/\ inv.before_reconcile.filters[h].present
                       /\ \A kind \in {"notfound", "error"} :
                              Fault("describe_subscription_filters", h, kind)
                                  \notin faults)
                          => InList(h, inv.log_groups_with_filters)

\* C27 witness: the first listed log group, which carried the filter, was
\* gone when it was queried; the pass returned, having found the other one
C27_Witness ==
    /\ faults = {Fault("describe_subscription_filters", GA, "notfound")}
    /\ inv.scan = <<GA, GB>>
    /\ inv.before_reconcile.filters[GA].present
    /\ inv.log_groups_with_filters = <<GB>>
    /\ inv.pc = "returned"

\* C28: a reconciliation pass makes no delete_subscription_filter call on a
\* log group that matches one of the patterns it read at its start, and
\* leaves the filter of such a log group as it was
C28_RemovalSafety ==
    inv.before_reconcile.entered
        => \A g \in LogGroups :
               (\E k \in 1..Len(inv.current_patterns) :
                    fnmatch(g, inv.current_patterns[k]))
                   => /\ \A k \in Attempted(inv, "delete_subscription_filter") :
                             inv.calls[k].target # g
                      /\ filters[g] = inv.before_reconcile.filters[g]

\* C28 witness: of two log groups with a filter the pass removed the filter
\* of the one no pattern matches and kept the other's, which a pattern
\* matches
C28_Witness ==
    /\ RuleDeleted(inv) /\ inv.pc = "returned"
    /\ Len(inv.current_patterns) > 0
    /\ \E k \in 1..Len(inv.current_patterns) : fnmatch(GA, inv.current_patterns[k])
    /\ \A k \in 1..Len(inv.current_patterns) : ~fnmatch(GB, inv.current_patterns[k])
    /\ start.filters[GA].present /\ filters[GA] = start.filters[GA]
    /\ start.filters[GB].present /\ ~filters[GB].present

\* C29: when delete_subscription_filter answers ResourceNotFound for a log
\* group marked for removal, the group is counted as removed and only the
\* deletions that failed otherwise as failures, every marked log group gets
\* its delete call, and the pass goes on to rewrite the tracking record and
\* returns
C29_DeletionToleratesAbsence ==
    \A g \in LogGroups :
        (/\ Fault("delete_subscription_filter", g, "notfound") \in faults
         /\ Fault("delete_subscription_filter", g, "error") \notin faults
         /\ InList(g, inv.filters_to_remove))
            => LET marked == Range(inv.filters_to_remove)
                   failed == { h \in marked :
                                 Fault("delete_subscription_filter", h, "error")
                                     \in faults }
               IN  /\ inv.failed_count = Cardinality(failed)
                   /\ inv.removed_count = Cardinality(marked \ failed)
                   /\ \A h \in marked :
                          \E k \in Attempted(inv, "delete_subscription_filter") :
                              inv.calls[k].target = h
                   /\ tracking = IF Len(inv.current_patterns) > 0
                                 THEN Param(Join(inv.current_patterns))
                                 ELSE NoParam
                   /\ inv.pc = "returned"

\* C29 witness: of two log groups marked for removal the first was already
\* gone; both count as removed, the second lost its filter, and the
\* tracking record was rewritten to the one pattern there is
C29_Witness ==
    /\ faults = {Fault("delete_subscription_filter", GA, "notfound")}
    /\ inv.filters_to_remove = <<GA, GB>>
    /\ inv.removed_count = 2 /\ inv.failed_count = 0
    /\ start.filters[GB].present /\ ~filters[GB].present
    /\ Len(inv.current_patterns) = 1
    /\ Made(inv, "put_parameter") # {}
    /\ inv.pc = "returned"

C31_SyncFrame ==
    (owning \in {"local", "other"} /\ inv.sync_count > 0)
        => LET puts == Made(inv, "central_put_parameter")
               deletes == Made(inv, "central_delete_parameter")
           IN  /\ Cardinality(CentralStoreCalls(inv)) <= 1
               /\ inv.pc = "returned" => Cardinality(CentralStoreCalls(inv)) = 1
               /\ \A c \in CentralStoreCalls(inv) :
                      inv.calls[c].target = <<"/", "a", "/">> \o LOCAL_ACCOUNT_ID
               /\ (puts = {} /\ deletes = {})
                      => central = start.central
               /\ deletes # {} => central = NoDoc
               /\ puts # {}
                      => /\ central = Doc(get_all_local_parameters(World))
                         /\ \A e \in central.doc :
                                \E name \in LocalRules :
                                    /\ e.key = key_name(name)
                                    /\ e.value = rules[name]

\* C31 witness: the central document of an earlier sync held a key that is
\* no local rule; the sync wrote once and the key is gone
C31_Witness ==
    /\ owning = "other"
    /\ start.central = Doc(StaleConfig)
    /\ inv.pc = "returned"
    /\ Cardinality(Made(inv, "central_put_parameter")) = 1
    /\ CentralStoreCalls(inv) = Made(inv, "central_put_parameter")
    /\ central.present
    /\ \A e \in central.doc : e.key # <<"o", "l", "d">>

\* C32 as claimed: every value an invocation writes to the tracking record
\* holds no entry twice
C32_TrackingHoldsNoEntryTwice ==
    (tracking.present /\ Made(inv, "put_parameter") # {})
        => LET entries == Split(tracking.value)
           IN  \A j, k \in 1..Len(entries) : entries[j] = entries[k] => j = k

\* Contents of the tracking record the same invocation is run again from
TrackingContents ==
    {NoParam, Param(PatA), Param(PatAll), Param(Join(<<GA, GB>>))}

\* C33: the invocation that just ended, run again on the same event with
\* the same backend failures from the state it started in with any other
\* content of the tracking record (or none), leaves the same managed
\* filters with the same filter patterns
C33_TrackingNeverDrivesFilters ==
    inv.pc # "idle"
        => \A t \in TrackingContents :
               Run([start EXCEPT !.tracking = t], Invocation(inv.event), faults)
                   .w.filters = filters

\* C33 witness: a log group was created with no tracking record and the
\* invocation raised after it put the filter; with a tracking record the
\* same invocation returns, and the filters are the same
C33_Witness ==
    /\ LogGroupCreated(inv)
    /\ ~start.tracking.present
    /\ inv.pc = "raised"
    /\ Made(inv, "put_subscription_filter") # {}
    /\ filters # start.filters
    /\ LET twin == Run([start EXCEPT !.tracking = Param(PatAll)],
                       Invocation(inv.event), faults)
       IN  /\ twin.p.pc = "returned"
           /\ twin.w.tracking # tracking
           /\ twin.w.filters = filters

\* C34 as claimed: when put_subscription_filter fails for the first log
\* group an invocation works on, in the new-log-group path or in the
\* rule-written path, the tracking record is what it was when the
\* invocation started
C34_TrackingUnchangedWhenPutFails ==
    (/\ LogGroupCreated(inv) \/ RulePut(inv)
     /\ Attempted(inv, "put_subscription_filter") # {}
     /\ Made(inv, "put_subscription_filter") = {}
     /\ inv.raised_at = "put_subscription_filter")
        => tracking = start.tracking

\* C35 as claimed: when two invocations for the creation of two different
\* log groups, both matched by a rule and neither covered by an entry of
\* the tracking record, have both returned, however their backend calls
\* were interleaved, both log groups carry the filter and the tracking
\* record holds both names
C35_NoLostTrackingUpdate ==
    (/\ \A n \in Invocations :
            /\ conc[n].p.event.eventName = "CreateLogGroup"
            /\ conc[n].p.pc = "returned"
            /\ \A k \in 1..Len(Split(start.tracking.value)) :
                   ~fnmatch(conc[n].p.event.name, Split(start.tracking.value)[k])
     /\ conc[1].p.event.name # conc[2].p.event.name)
        => /\ \A g \in LogGroups : filters[g].present
           /\ LogGroups \subseteq TrackingEntries

\* C36: an invocation leaves every filter of another name where it was:
\* the log groups that carry one are the same after it as before, and where
\* such a filter, its name starting with the managed name, made the scan
\* return a log group that no rule matches and that has no managed filter,
\* the delete call made on that log group deleted nothing
C36_ForeignFiltersUntouched ==
    inv.pc # "idle"
        => /\ foreign = start.foreign
           /\ \A g \in start.foreign :
                  (/\ InList(g, inv.filters_to_remove)
                   /\ ~inv.before_reconcile.filters[g].present)
                      => \A k \in Attempted(inv, "delete_subscription_filter") :
                             inv.calls[k].target = g => ~inv.calls[k].ok

\* C36 witness: /b/y carries only a filter of a longer name, no rule matches
\* it, the reconciliation marked it and called delete_subscription_filter
\* on it, and the filter is still there
C36_Witness ==
    /\ GB \in start.foreign
    /\ InList(GB, inv.filters_to_remove)
    /\ ~inv.before_reconcile.filters[GB].present
    /\ \E k \in Attempted(inv, "delete_subscription_filter") :
           inv.calls[k].target = GB
    /\ inv.pc = "returned"
    /\ GB \in foreign

\* C37: an invocation of the standalone handler that returns has made one
\* put_parameter call on the central store, on CENTRAL_SSM_PARAM_PREFIX
\* without trailing slashes followed by a slash and the account id; at any
\* moment a put_parameter call made was preceded by the last page of the
\* listing and by a successful assume_role; and when the listing or
\* assume_role fails no put_parameter call is made and the central
\* document is as it was
C37_StandaloneOrdering ==
    LET puts == Attempted(mgmt, "central_put_parameter")
        held == mgmt.env.CENTRAL_SSM_PARAM_PREFIX
        prefix == IF held.none THEN <<"/", "central-config", "/">> ELSE held.value
        stem(name) == SubSeq(name, 1, Len(name) - Len(LOCAL_ACCOUNT_ID) - 1)
    IN  /\ mgmt.pc = "returned"
               => /\ Cardinality(puts) = 1
                  /\ Made(mgmt, "central_put_parameter") = puts
        /\ \A k \in puts :
               LET name == mgmt.calls[k].target
               IN  /\ mgmt.pages >= 1 /\ mgmt.next_token = 0
                   /\ \E j \in Made(mgmt, "assume_role") : j < k
                   /\ name = stem(name) \o <<"/">> \o LOCAL_ACCOUNT_ID
                   /\ stem(name) = SubSeq(prefix, 1, Len(stem(name)))
                   /\ \A i \in (Len(stem(name)) + 1)..Len(prefix) : prefix[i] = "/"
                   /\ Len(stem(name)) > 0 => name[Len(stem(name))] # "/"
        /\ (/\ mgmt.pc # "idle"
            /\ \/ Fault("get_parameters_by_path", EmptyStr, "handler") \in faults
               \/ Fault("assume_role", EmptyStr, "handler") \in faults
               \/ Fault("get_caller_identity", EmptyStr, "handler") \in faults)
               => puts = {} /\ central = start.central

\* C37 witness: with CENTRAL_SSM_PARAM_PREFIX "/p//" the handler listed two
\* pages, assumed the role, wrote "/p/" and the account id and returned
C37_Witness ==
    /\ mgmt.pc = "returned"
    /\ mgmt.env.CENTRAL_SSM_PARAM_PREFIX = Value(<<"/", "p", "/", "/">>)
    /\ mgmt.pages = 2
    /\ Len(mgmt.calls) = 2
    /\ mgmt.calls[1].op = "assume_role" /\ mgmt.calls[1].ok
    /\ mgmt.calls[2] = Call("central_put_parameter",
                            <<"/", "p", "/">> \o LOCAL_ACCOUNT_ID, TRUE)
    /\ central # start.central

\* C38 as claimed: the Parameters of the payload the standalone handler
\* wrote hold exactly one entry per parameter fetched, keyed by the name
\* with the source prefix removed, every occurrence of the old token
\* replaced by the new token and the outer slashes stripped, with the
\* parameter's value
C38_PayloadKeepsEveryParameter ==
    (mgmt.pc = "returned" /\ Made(mgmt, "central_put_parameter") # {})
        => LET source_prefix == mgmt.env.SOURCE_PREFIX.value
               old == mgmt.env.OLD_TOKEN
               new == mgmt.env.NEW_TOKEN.value
               segment(name) == SubSeq(name, Len(source_prefix) + 1, Len(name))
               key(name) == Strip(IF old.none THEN segment(name)
                                  ELSE Replace(segment(name), old.value, new))
           IN  /\ Cardinality(central.doc) = Len(mgmt.params)
               /\ \A k \in 1..Len(mgmt.params) :
                      [key |-> key(mgmt.params[k]),
                       value |-> rules[mgmt.params[k]]] \in central.doc

\* The names of the parameters the store holds under path, in the order it
\* lists them
Listing(path) ==
    LET under(name) == /\ rules[name].kind # "absent"
                       /\ Len(name) >= Len(path)
                       /\ SubSeq(name, 1, Len(path)) = path
    IN  SelectSeq(RuleOrder, under)

\* C39: while fetch_parameters_by_path asks for pages, what it has
\* collected is the listing up to the page it has reached, in order, and it
\* has asked once per page; once it is done, on the first page without a
\* token, it holds the whole listing, every parameter once, after as many
\* calls as the listing has pages
C39_PaginationCompleteness ==
    LET all == Listing(mgmt.env.SOURCE_PREFIX.value)
        n == Len(all)
    IN  /\ (mgmt.pc = "fetch_parameters_by_path" /\ mgmt.pages > 0)
               => /\ mgmt.params = SubSeq(all, 1, mgmt.pages * PageSize)
                  /\ mgmt.next_token = mgmt.pages * PageSize
                  /\ mgmt.pages * PageSize < n
        /\ mgmt.pc \in {"assume_role", "central_put_parameter", "returned"}
               => /\ mgmt.params = all
                  /\ \A j, k \in 1..Len(mgmt.params) :
                         mgmt.params[j] = mgmt.params[k] => j = k
                  /\ mgmt.pages >= 1
                  /\ (mgmt.pages - 1) * PageSize < n \/ n = 0
                  /\ mgmt.pages * PageSize >= n

\* C39 witness: four parameters came in four pages and are held in the
\* order of the listing
C39_Witness ==
    /\ mgmt.pc = "assume_role"
    /\ mgmt.pages = 4
    /\ mgmt.params = <<KeyA, KeyTwice, KeyAB, KeyB>>

====
